---- MODULE Spec2Model ----
(***************************************************************************)
(* The FASTA/FASTQ sequence indexer of rust-samtools                       *)
(* (src/src/io/fai/indexer.rs) over a buffered byte stream, with the line  *)
(* and name primitives of src/src/io/common/mod.rs.                        *)
(*                                                                         *)
(* A byte is a one-character string; a line, the line buffer and the input *)
(* are sequences of bytes.  Stream positions count bytes from 0, so the    *)
(* byte at stream position p is input[p + 1].                              *)
(***************************************************************************)
EXTENDS Integers, Sequences, FiniteSets, TLC

VARIABLES
    format,              \* Indexer.format
    capacity,            \* capacity of Indexer.reader (std::io::BufReader)
    input,               \* the bytes of the underlying reader R
    pos,                 \* logical stream position of Indexer.reader
    bufEnd,              \* position of R: end of the bytes BufReader holds
    buffer,              \* Indexer.buffer
    sequence_num_bytes,  \* Indexer.sequence_num_bytes
    eof,                 \* Indexer.eof
    record,              \* the caller's Record, passed as &mut to read()
    pc,                  \* position inside Indexer::read ("idle" between calls)
    calls,               \* number of read() calls made so far
    reuse,               \* the caller passes its record on without clear()
    before,              \* the caller's record as passed to the current/last call
    hdr,                 \* the line the current/last call used as its header
    bufStart,            \* stream position at which the bytes of buffer begin
    returned,            \* what each finished call returned, in call order
    faiWriter,           \* fai::Writer.writer (csv::Writer) and the bytes it has put out
    faiWritten,          \* the records passed to Writer::write and what each call returned
    faiReader,           \* fai::Reader: reader (csv::Reader), string_record, its input
    faiRecord,           \* the caller's Record, passed as &mut to Reader::read
    faiReturned,         \* what each Reader::read call did, in call order
    faiItems,            \* what each Records::next call returned, in call order
    cmdReader,           \* faidx: what the calls of reader.read still to come will return
    cmdRead,             \* faidx: what each reader.read call of the loop returned
    cmdNames,            \* faidx: names of consume_reader
    cmdLoop,             \* faidx: the loop at work, "consume_reader" or "run", or "none"
    cmdResult,           \* faidx: what the loop returned, None while it runs
    fastqReader          \* fastq::reader::fai::Reader on the same input: its fields,
                         \* its caller's record, its position inside read() and
                         \* what each of its read() calls returned

indexerVars == <<format, capacity, input, pos, bufEnd, buffer, sequence_num_bytes, eof,
                 record, pc, calls, reuse, before, hdr, bufStart, returned>>

faiVars == <<faiWriter, faiWritten, faiReader, faiRecord, faiReturned, faiItems>>

cmdVars == <<cmdReader, cmdRead, cmdNames, cmdLoop, cmdResult>>

vars == <<indexerVars, faiVars, cmdVars, fastqReader>>

-----------------------------------------------------------------------------
(* Bytes *)

GT == ">"
AT == "@"
PLUS == "+"
NEWLINE == "\n"
CR == "\r"
SPACE == " "
TAB == "\t"
\* a byte that is no valid UTF-8 (0xFF)
BAD == "xFF"

\* char::is_whitespace on the bytes of the model
Whitespace == {SPACE, TAB, CR, NEWLINE}

Min(a, b) == IF a < b THEN a ELSE b

\* std::str::from_utf8 / String::from_utf8 succeed
IsUtf8(s) == \A i \in 1..Len(s) : s[i] # BAD

\* slice.starts_with(&[b])
StartsWith(s, b) == Len(s) > 0 /\ s[1] = b

RECURSIVE TrimStart(_)
TrimStart(s) ==
    IF s # <<>> /\ Head(s) \in Whitespace THEN TrimStart(Tail(s)) ELSE s

RECURSIVE TrimEnd(_)
TrimEnd(s) ==
    IF s # <<>> /\ s[Len(s)] \in Whitespace
    THEN TrimEnd(SubSeq(s, 1, Len(s) - 1)) ELSE s

\* str::trim
Trim(s) == TrimEnd(TrimStart(s))

\* s.split(SPACE).take(1): the bytes before the first SPACE
RECURSIVE FirstField(_)
FirstField(s) ==
    IF s = <<>> \/ Head(s) = SPACE THEN <<>> ELSE <<Head(s)>> \o FirstField(Tail(s))

\* a parse_sequence_name that does not trim the line before it cuts it
parse_sequence_name_uncut(line) == Trim(FirstField(line))

parse_sequence_name(line) == Trim(FirstField(Trim(line)))

\* count_bases that counts every byte of the line, its terminator too
count_bases_untrimmed(line) == Len(line)

\* count_bases of a line that is valid UTF-8
count_bases(line) == Len(Trim(line))

-----------------------------------------------------------------------------
(* Format *)

FASTA == "FASTA"
FASTQ == "FASTQ"

description_prefix(f) == IF f = FASTA THEN GT ELSE AT

sequence_end_marker(f) == IF f = FASTA THEN description_prefix(f) ELSE PLUS

is_description(line, f) == StartsWith(line, description_prefix(f))

\* an is_sequence_end that takes the description prefix for the marker
is_sequence_end_at_prefix(line, f) == StartsWith(line, description_prefix(f))

is_sequence_end(line, f) == StartsWith(line, sequence_end_marker(f))

\* get_name without its check of the prefix byte
get_name_unchecked(description, f) ==
    IF description = <<>> THEN [kind |-> "Input", name |-> <<>>]
    ELSE IF ~IsUtf8(Tail(description)) THEN [kind |-> "TypeConversion", name |-> <<>>]
    ELSE [kind |-> "Ok", name |-> parse_sequence_name(Tail(description))]

\* get_name: [kind |-> "Ok", name |-> ...] or the kind of the error
get_name(description, f) ==
    IF ~is_description(description, f) THEN [kind |-> "Input", name |-> <<>>]
    ELSE IF ~IsUtf8(Tail(description)) THEN [kind |-> "TypeConversion", name |-> <<>>]
    ELSE [kind |-> "Ok", name |-> parse_sequence_name(Tail(description))]

-----------------------------------------------------------------------------
(* Record *)

None == <<>>
Some(x) == <<x>>

NewRecord ==
    [name |-> <<>>, length |-> 0, offset |-> 0, line_bases |-> 0,
     line_width |-> 0, qual_offset |-> None]

\* a clear that leaves the length as it is
clear_keeping_length(rec) ==
    [rec EXCEPT !.name = <<>>, !.offset = 0, !.line_bases = 0, !.line_width = 0,
                !.qual_offset = None]

\* Record::clear
clear(rec) ==
    [rec EXCEPT !.name = <<>>, !.length = 0, !.offset = 0, !.line_bases = 0,
                !.line_width = 0, !.qual_offset = None]

-----------------------------------------------------------------------------
(* The buffered stream: std::io::BufReader over the input *)

\* the capacity BufReader::new gives the reader
DEFAULT_BUF_SIZE == 8192

\* a capacity smaller than the inputs of the model, for the inputs that are
\* larger than the reader's buffer
SmallBufSize == 4

Capacities == {SmallBufSize, DEFAULT_BUF_SIZE}

\* BufReader::fill_buf: the end of the buffered bytes once the buffer holds
\* something to read at position p (it is refilled only when it is used up)
FillEnd(p, e) == IF p >= e THEN Min(p + capacity, Len(input)) ELSE e

\* memchr(NEWLINE, available): the position after the first NEWLINE among the
\* bytes at positions p..e-1, or 0
RECURSIVE FindNewline(_, _)
FindNewline(p, e) ==
    IF p >= e THEN 0
    ELSE IF input[p + 1] = NEWLINE THEN p + 1
    ELSE FindNewline(p + 1, e)

\* BufRead::read_until(NEWLINE, buf) from position p with the buffer ending at e
RECURSIVE read_until(_, _, _)
read_until(p, e, buf) ==
    LET f == FillEnd(p, e)
        i == FindNewline(p, f)
    IN  IF i # 0 THEN [pos |-> i, bufEnd |-> f, buf |-> buf \o SubSeq(input, p + 1, i)]
        ELSE IF f = p THEN [pos |-> p, bufEnd |-> f, buf |-> buf]
        ELSE read_until(f, f, buf \o SubSeq(input, p + 1, f))

\* a stream_position that forgets the bytes buffered and not yet read
stream_position_of_inner(p, e) == e

\* Seek::stream_position of BufReader: the position of the underlying reader
\* less the bytes buffered and not yet read
stream_position(p, e) == e - (e - p)

\* a consume that counts amt from the start of the stream
consume_from_start(p, e, amt) == Min(amt, e)

\* BufRead::consume(amt) of BufReader
consume(p, e, amt) == Min(p + amt, e)

\* common::read_line
common_read_line(p, e, buf) ==
    LET r == read_until(p, e, buf)
        num_bytes == r.pos - p
    IN  [kind |-> IF num_bytes = 0 THEN "Eof" ELSE "Ok", n |-> num_bytes,
         pos |-> r.pos, bufEnd |-> r.bufEnd, buf |-> r.buf]

\* a read_line without the latch: every read of no byte is an Eof error
read_line_without_latch(p, e, buf) == common_read_line(p, e, buf) @@ [eof |-> eof]

\* a read_line whose flag is lowered again by the read it fails
read_line_rearming(p, e, buf) ==
    LET r == common_read_line(p, e, buf)
    IN  IF r.kind = "Eof"
        THEN IF eof THEN r @@ [eof |-> FALSE]
             ELSE [r EXCEPT !.kind = "Ok", !.n = 0] @@ [eof |-> TRUE]
        ELSE r @@ [eof |-> eof]

\* Indexer::read_line from position p, appending to the line buffer buf
read_line(p, e, buf) ==
    LET r == common_read_line(p, e, buf)
    IN  IF r.kind = "Eof"
        THEN IF eof THEN r @@ [eof |-> TRUE]
             ELSE [r EXCEPT !.kind = "Ok", !.n = 0] @@ [eof |-> TRUE]
        ELSE r @@ [eof |-> eof]

-----------------------------------------------------------------------------
(* The fai codec: Record <-> csv::StringRecord (src/src/io/fai/mod.rs)      *)

DELIMITER == TAB
FASTA_WIDTH == 5
FASTQ_WIDTH == 6
QUOTE == "\""

Digits == <<"0", "1", "2", "3", "4", "5", "6", "7", "8", "9">>

IsDigit(c) == \E d \in 1..10 : Digits[d] = c

DigitValue(c) == (CHOOSE d \in 1..10 : Digits[d] = c) - 1

\* usize::to_string, u64::to_string: the decimal digits of n
RECURSIVE to_string(_)
to_string(n) ==
    IF n < 10 THEN <<Digits[n + 1]>>
    ELSE to_string(n \div 10) \o <<Digits[(n % 10) + 1]>>

\* the value of the digits s after the value acc of the digits before them,
\* None at a byte that is no digit
RECURSIVE ParseDigits(_, _)
ParseDigits(s, acc) ==
    IF s = <<>> THEN Some(acc)
    ELSE IF ~IsDigit(Head(s)) THEN None
    ELSE ParseDigits(Tail(s), 10 * acc + DigitValue(Head(s)))

\* str::parse::<usize>, str::parse::<u64> as csv's deserializer calls them
\* on a field: decimal digits after an optional plus sign, None for an error
ParseInt(s) ==
    LET digits == IF s # <<>> /\ Head(s) = PLUS THEN Tail(s) ELSE s
    IN  IF digits = <<>> THEN None ELSE ParseDigits(digits, 0)

\* a to_string_record that always emits the sixth field
to_string_record_six(rec) ==
    <<rec.name, to_string(rec.length), to_string(rec.offset), to_string(rec.line_bases),
      to_string(rec.line_width),
      IF rec.qual_offset # None THEN to_string(rec.qual_offset[1]) ELSE <<>>>>

\* Record::to_string_record
to_string_record(rec) ==
    <<rec.name, to_string(rec.length), to_string(rec.offset), to_string(rec.line_bases),
      to_string(rec.line_width)>>
    \o (IF rec.qual_offset # None THEN <<to_string(rec.qual_offset[1])>> ELSE <<>>)

\* a deserialize that takes 0 for a number it cannot parse
deserialize_defaulting(sr) ==
    IF Len(sr) < FASTA_WIDTH THEN [kind |-> "Input", record |-> NewRecord]
    ELSE LET num(i) == IF ParseInt(sr[i]) = None THEN 0 ELSE ParseInt(sr[i])[1]
         IN  [kind |-> "Ok",
              record |-> [name |-> sr[1], length |-> num(2), offset |-> num(3),
                          line_bases |-> num(4), line_width |-> num(5),
                          qual_offset |-> IF Len(sr) < FASTQ_WIDTH \/ sr[6] = <<>>
                                          THEN None ELSE Some(num(6))]]

\* csv::StringRecord::deserialize::<Record>(None): the fields by position,
\* name: String, length, offset, line_bases, line_width: integers,
\* qual_offset: Option<u64>, None for an empty field; any csv error is Input
deserialize(sr) ==
    LET failed == [kind |-> "Input", record |-> NewRecord]
    IN  IF Len(sr) < FASTA_WIDTH THEN failed
        ELSE IF \E i \in 2..FASTA_WIDTH : ParseInt(sr[i]) = None THEN failed
        ELSE IF Len(sr) >= FASTQ_WIDTH /\ sr[6] # <<>> /\ ParseInt(sr[6]) = None THEN failed
        ELSE [kind |-> "Ok",
              record |-> [name |-> sr[1],
                          length |-> ParseInt(sr[2])[1],
                          offset |-> ParseInt(sr[3])[1],
                          line_bases |-> ParseInt(sr[4])[1],
                          line_width |-> ParseInt(sr[5])[1],
                          qual_offset |-> IF Len(sr) < FASTQ_WIDTH \/ sr[6] = <<>>
                                          THEN None ELSE ParseInt(sr[6])]]

\* a try_from that does not look at the number of fields
try_from_any_width(sr) ==
    LET padded == IF Len(sr) = FASTA_WIDTH THEN Append(sr, <<>>) ELSE sr
        d == deserialize(padded)
    IN  [kind |-> d.kind, record |-> d.record, string_record |-> padded]

\* a try_from that takes a missing sixth field for a qual_offset of 0
try_from_zero_qual(sr) ==
    IF Len(sr) > FASTQ_WIDTH
    THEN [kind |-> "Input", record |-> NewRecord, string_record |-> sr]
    ELSE LET padded == IF Len(sr) = FASTA_WIDTH THEN Append(sr, <<"0">>) ELSE sr
             d == deserialize(padded)
         IN  [kind |-> d.kind, record |-> d.record, string_record |-> padded]

\* Record::try_from(&mut csv::StringRecord): the result, the record made and
\* the string record as try_from leaves it
try_from(sr) ==
    IF Len(sr) > FASTQ_WIDTH
    THEN [kind |-> "Input", record |-> NewRecord, string_record |-> sr]
    ELSE LET padded == IF Len(sr) = FASTA_WIDTH THEN Append(sr, <<>>) ELSE sr
             d == deserialize(padded)
         IN  [kind |-> d.kind, record |-> d.record, string_record |-> padded]

-----------------------------------------------------------------------------
(* fai::Writer over csv::Writer (src/src/io/fai/writer.rs): delimiter TAB,  *)
(* no header row, fields quoted when necessary, records ended by NEWLINE,   *)
(* every record as wide as the first                                        *)

\* csv::Writer of WriterBuilder::new().delimiter(DELIMITER).has_headers(false)
\* with nothing written
NewWriter == [out |-> <<>>, fields_written |-> 0, first_field_count |-> None]

\* the field holds a byte that makes csv quote it
NeedsQuotes(field) ==
    \E i \in 1..Len(field) : field[i] \in {DELIMITER, QUOTE, NEWLINE, CR}

\* the bytes of a field with every quote doubled
RECURSIVE DoubleQuotes(_)
DoubleQuotes(field) ==
    IF field = <<>> THEN <<>>
    ELSE (IF Head(field) = QUOTE THEN <<QUOTE, QUOTE>> ELSE <<Head(field)>>)
         \o DoubleQuotes(Tail(field))

\* the bytes csv writes for one field
WriteField(field) ==
    IF NeedsQuotes(field) THEN <<QUOTE>> \o DoubleQuotes(field) \o <<QUOTE>> ELSE field

\* the writer after the fields of one record, a delimiter before each field
\* but the first of the line
RECURSIVE WriteFields(_, _)
WriteFields(w, fields) ==
    IF fields = <<>> THEN w
    ELSE WriteFields(
            [w EXCEPT !.out = @ \o (IF w.fields_written > 0 THEN <<DELIMITER>> ELSE <<>>)
                                \o WriteField(Head(fields)),
                      !.fields_written = @ + 1],
            Tail(fields))

\* a write_record that holds every record to the width of a FASTA line
write_record_fasta_wide(w, fields) ==
    LET f == WriteFields(w, fields)
    IN  IF f.fields_written # FASTA_WIDTH
        THEN [kind |-> "Input", writer |-> f]
        ELSE [kind |-> "Ok",
              writer |-> [f EXCEPT !.out = @ \o <<NEWLINE>>,
                                   !.fields_written = 0,
                                   !.first_field_count = Some(f.fields_written)]]

\* a write_record that takes records of any width
write_record_flexible(w, fields) ==
    LET f == WriteFields(w, fields)
    IN  [kind |-> "Ok",
         writer |-> [f EXCEPT !.out = @ \o <<NEWLINE>>, !.fields_written = 0]]

\* a write_record that does not end the record
write_record_unterminated(w, fields) ==
    LET f == WriteFields(w, fields)
    IN  [kind |-> "Ok", writer |-> [f EXCEPT !.fields_written = 0]]

\* csv::Writer::write_record: the fields, then the terminator unless the
\* record is not as wide as the first one written (UnequalLengths, an Input
\* error), in which case the fields stay written and the line stays open
write_record(w, fields) ==
    LET f == WriteFields(w, fields)
    IN  IF f.first_field_count # None /\ f.first_field_count # Some(f.fields_written)
        THEN [kind |-> "Input", writer |-> f]
        ELSE [kind |-> "Ok",
              writer |-> [f EXCEPT !.out = @ \o <<NEWLINE>>,
                                   !.fields_written = 0,
                                   !.first_field_count = Some(f.fields_written)]]

\* Writer::write
write(w, rec) == write_record(w, to_string_record(rec))

-----------------------------------------------------------------------------
(* fai::Reader over csv::Reader (src/src/io/fai/reader.rs): delimiter TAB,  *)
(* no header row, quoted fields, records ended by NEWLINE, CR or both,      *)
(* empty lines skipped, every record as wide as the first                   *)

\* csv::Reader::read_record on the bytes bs from position p: the fields of
\* the next record and the position after it, or found = FALSE at the end of
\* the input.  st is the state of the parser, cur the field it is in, fs the
\* fields before it.
RECURSIVE ReadFields(_, _, _, _, _)
ReadFields(bs, p, st, cur, fs) ==
    IF p >= Len(bs)
    THEN IF st = "StartRecord" THEN [found |-> FALSE, fields |-> <<>>, pos |-> p]
         ELSE [found |-> TRUE, fields |-> Append(fs, cur), pos |-> p]
    ELSE LET c == bs[p + 1]
         IN  CASE st = "StartRecord" ->
                    IF c \in {NEWLINE, CR} THEN ReadFields(bs, p + 1, st, <<>>, <<>>)
                    ELSE ReadFields(bs, p, "StartField", <<>>, <<>>)
               [] st = "StartField" ->
                    IF c = QUOTE THEN ReadFields(bs, p + 1, "InQuotedField", <<>>, fs)
                    ELSE ReadFields(bs, p, "InField", <<>>, fs)
               [] st = "InField" ->
                    IF c = DELIMITER
                    THEN ReadFields(bs, p + 1, "StartField", <<>>, Append(fs, cur))
                    ELSE IF c \in {NEWLINE, CR}
                    THEN [found |-> TRUE, fields |-> Append(fs, cur), pos |-> p + 1]
                    ELSE ReadFields(bs, p + 1, st, Append(cur, c), fs)
               [] st = "InQuotedField" ->
                    IF c = QUOTE THEN ReadFields(bs, p + 1, "InDoubleEscapedQuote", cur, fs)
                    ELSE ReadFields(bs, p + 1, st, Append(cur, c), fs)
               [] st = "InDoubleEscapedQuote" ->
                    IF c = QUOTE
                    THEN ReadFields(bs, p + 1, "InQuotedField", Append(cur, QUOTE), fs)
                    ELSE ReadFields(bs, p, "InField", cur, fs)

\* Reader::new over the bytes bs
NewReader(bs) ==
    [open |-> TRUE, bytes |-> bs, pos |-> 0, first_field_count |-> None,
     string_record |-> <<>>]

\* no Reader yet
NoReader ==
    [open |-> FALSE, bytes |-> <<>>, pos |-> 0, first_field_count |-> None,
     string_record |-> <<>>, iter |-> FALSE, lines |-> <<>>]

\* a read that takes records of any width
read_flexible(r, rec) ==
    LET n == ReadFields(r.bytes, r.pos, "StartRecord", <<>>, <<>>)
        t == try_from(n.fields)
    IN  IF ~n.found
        THEN [kind |-> "Eof", record |-> rec, fields |-> <<>>, stage |-> "end",
              reader |-> [r EXCEPT !.pos = n.pos, !.string_record = <<>>]]
        ELSE [kind |-> t.kind,
              record |-> IF t.kind = "Ok" THEN t.record ELSE rec,
              fields |-> n.fields, stage |-> "try_from",
              reader |-> [r EXCEPT !.pos = n.pos, !.string_record = t.string_record]]

\* a read that reports the end of the input as an Input error
read_eof_as_input(r, rec) ==
    LET n == ReadFields(r.bytes, r.pos, "StartRecord", <<>>, <<>>)
        t == try_from(n.fields)
    IN  IF ~n.found
        THEN [kind |-> "Input", record |-> rec, fields |-> <<>>, stage |-> "end",
              reader |-> [r EXCEPT !.pos = n.pos, !.string_record = <<>>]]
        ELSE IF r.first_field_count # None /\ r.first_field_count # Some(Len(n.fields))
        THEN [kind |-> "Input", record |-> rec, fields |-> n.fields, stage |-> "read_record",
              reader |-> [r EXCEPT !.pos = n.pos, !.string_record = n.fields]]
        ELSE [kind |-> t.kind,
              record |-> IF t.kind = "Ok" THEN t.record ELSE rec,
              fields |-> n.fields, stage |-> "try_from",
              reader |-> [r EXCEPT !.pos = n.pos, !.string_record = t.string_record,
                                   !.first_field_count = Some(Len(n.fields))]]

\* Reader::read on the caller's record rec: what it returns, the caller's
\* record after it, the fields csv read, the step that decided (the end of
\* the input, csv's read_record, Record::try_from) and the reader after it
read(r, rec) ==
    LET n == ReadFields(r.bytes, r.pos, "StartRecord", <<>>, <<>>)
        t == try_from(n.fields)
    IN  IF ~n.found
        THEN [kind |-> "Eof", record |-> rec, fields |-> <<>>, stage |-> "end",
              reader |-> [r EXCEPT !.pos = n.pos, !.string_record = <<>>]]
        ELSE IF r.first_field_count # None /\ r.first_field_count # Some(Len(n.fields))
        THEN [kind |-> "Input", record |-> rec, fields |-> n.fields, stage |-> "read_record",
              reader |-> [r EXCEPT !.pos = n.pos, !.string_record = n.fields]]
        ELSE [kind |-> t.kind,
              record |-> IF t.kind = "Ok" THEN t.record ELSE rec,
              fields |-> n.fields, stage |-> "try_from",
              reader |-> [r EXCEPT !.pos = n.pos, !.string_record = t.string_record,
                                   !.first_field_count = Some(Len(n.fields))]]

\* what Records::next makes of the result of read on its new record
next(kind, rec) ==
    CASE kind = "Ok" -> Some([kind |-> "Ok", record |-> rec])
      [] kind = "Eof" -> None
      [] OTHER -> Some([kind |-> kind, record |-> NewRecord])

\* Writer::new, and no Reader yet
FaiNew ==
    /\ faiWriter = NewWriter
    /\ faiWritten = <<>>
    /\ faiReader = NoReader
    /\ faiRecord = NewRecord
    /\ faiReturned = <<>>
    /\ faiItems = <<>>

\* Reader::new of the FASTQ reader, with no call made
NewFastqReader ==
    [pos |-> 0, bufEnd |-> 0, buffer |-> <<>>, sequence_num_bytes |-> 0, eof |-> FALSE,
     pc |-> "idle", record |-> NewRecord, returned |-> <<>>]

\* no faidx loop at work
CmdNone ==
    /\ cmdReader = <<>>
    /\ cmdRead = <<>>
    /\ cmdNames = {}
    /\ cmdLoop = "none"
    /\ cmdResult = None

-----------------------------------------------------------------------------
(* The inputs of the model *)

\* lines of an input built line by line
MaxLines == 3

\* records of an input built record by record
MaxRecords == 2

\* read() calls made on one indexer
MaxCalls == 4

Header(f, n) == <<description_prefix(f), n>>

\* the lines, without their NEWLINE, an input is built from line by line
LineSet(f) == {Header(f, "a"), <<PLUS>>, <<SPACE, "A">>, <<"A", "A">>, <<>>, <<BAD>>}

\* a sequence block and a quality block of one line
OneLine == [seq |-> <<<<"A", "A">>>>, qual |-> <<<<"I", "I">>>>]

\* the sequence block and the quality block of a record, as lines
Bodies ==
    {OneLine,
     [seq |-> <<<<"A", "A">>, <<"A">>>>, qual |-> <<<<"I", "I">>, <<"I">>>>],
     [seq |-> <<<<"A", "A", CR>>, <<"A", CR>>>>, qual |-> <<<<"I", "I", CR>>, <<"I", CR>>>>],
     [seq |-> <<<<"A">>, <<"A", "A">>>>, qual |-> <<<<"I">>, <<"I", "I">>>>],
     [seq |-> <<<<"A", "A">>, <<"A">>, <<"A", "A">>>>,
      qual |-> <<<<"I", "I">>, <<"I">>, <<"I", "I">>>>],
     [seq |-> <<<<"A", "A">>, <<"A", "A">>>>, qual |-> <<<<AT, "I">>, <<"I", "I">>>>]}

\* the lines of one record: header, sequence block and, for FASTQ, the plus
\* line and the quality block
RecordLines(f, n, b) ==
    <<Header(f, n)>> \o b.seq \o (IF f = FASTQ THEN <<<<PLUS>>>> \o b.qual ELSE <<>>)

\* a record cut after its first sequence line: for FASTQ, one without its
\* plus line and quality block
CutShort(f) == <<Header(f, "a"), <<"A">>>>

RecordSet(f) ==
    {RecordLines(f, "a", b) : b \in Bodies} \cup {RecordLines(f, "b", OneLine), CutShort(f)}

RECURSIVE Concat(_)
Concat(ss) == IF ss = <<>> THEN <<>> ELSE Head(ss) \o Concat(Tail(ss))

\* the bytes of the lines ls, each ended by NEWLINE, the last only if term
RECURSIVE Bytes(_, _)
Bytes(ls, term) ==
    IF ls = <<>> THEN <<>>
    ELSE IF Len(ls) = 1 THEN Head(ls) \o (IF term THEN <<NEWLINE>> ELSE <<>>)
    ELSE Head(ls) \o <<NEWLINE>> \o Bytes(Tail(ls), term)

LineInputs(f) ==
    {Bytes(ls, t) : ls \in UNION {[1..n -> LineSet(f)] : n \in 0..MaxLines},
                    t \in BOOLEAN}

RecordInputs(f) ==
    {Bytes(Concat(rs), t) : rs \in UNION {[1..n -> RecordSet(f)] : n \in 1..MaxRecords},
                            t \in BOOLEAN}

Inputs(f) == LineInputs(f) \cup RecordInputs(f)

-----------------------------------------------------------------------------
(* The indexer *)

\* no line taken as a header yet
NoHeader == [start |-> 0, line |-> <<>>, buffered |-> FALSE, kind |-> "None"]

\* Indexer::new and Record::new
Init ==
    /\ format \in {FASTA, FASTQ}
    /\ capacity \in Capacities
    /\ reuse \in BOOLEAN
    /\ input \in Inputs(format)
    /\ pos = 0
    /\ bufEnd = 0
    /\ buffer = <<>>
    /\ sequence_num_bytes = 0
    /\ eof = FALSE
    /\ record = NewRecord
    /\ pc = "idle"
    /\ calls = 0
    /\ before = NewRecord
    /\ hdr = NoHeader
    /\ bufStart = 0
    /\ returned = <<>>
    /\ FaiNew
    /\ CmdNone
    /\ fastqReader = NewFastqReader

\* read() returns kind to the caller, whose record is now rec
Return(kind, rec) ==
    /\ pc' = "idle"
    /\ returned' = Append(returned, [kind |-> kind, record |-> rec, before |-> before])

\* the caller calls Indexer::read with its record, cleared unless it reuses it
Call ==
    /\ pc = "idle"
    /\ calls < MaxCalls
    /\ calls' = calls + 1
    /\ record' = IF reuse THEN record ELSE clear(record)
    /\ before' = record'
    /\ hdr' = NoHeader
    /\ pc' = "description"
    /\ UNCHANGED <<format, capacity, input, pos, bufEnd, buffer, sequence_num_bytes,
                   eof, reuse, bufStart, returned>>
    /\ UNCHANGED faiVars
    /\ UNCHANGED cmdVars
    /\ UNCHANGED fastqReader

\* Indexer::read_description
ReadDescription ==
    /\ pc = "description"
    /\ LET r == IF buffer = <<>> THEN read_line(pos, bufEnd, buffer)
                ELSE [kind |-> "Ok", n |-> 0, pos |-> pos, bufEnd |-> bufEnd,
                      buf |-> buffer, eof |-> eof]
           g == get_name(r.buf, format)
           start == IF buffer = <<>> THEN pos ELSE bufStart
       IN  /\ pos' = r.pos
           /\ bufEnd' = r.bufEnd
           /\ eof' = r.eof
           /\ bufStart' = start
           /\ IF r.kind # "Ok"
              THEN /\ buffer' = r.buf
                   /\ hdr' = [start |-> start, line |-> r.buf,
                              buffered |-> buffer # <<>>, kind |-> r.kind]
                   /\ Return(r.kind, record)
                   /\ UNCHANGED record
              ELSE IF g.kind # "Ok"
              THEN /\ buffer' = r.buf
                   /\ hdr' = [start |-> start, line |-> r.buf,
                              buffered |-> buffer # <<>>, kind |-> g.kind]
                   /\ Return(g.kind, record)
                   /\ UNCHANGED record
              ELSE /\ record' = [record EXCEPT !.name = g.name,
                                              !.offset = stream_position(r.pos, r.bufEnd)]
                   /\ buffer' = <<>>
                   /\ hdr' = [start |-> start, line |-> r.buf,
                              buffered |-> buffer # <<>>, kind |-> "Ok"]
                   /\ pc' = "sequence"
                   /\ UNCHANGED returned
    /\ UNCHANGED <<format, capacity, input, sequence_num_bytes, calls, reuse, before>>
    /\ UNCHANGED faiVars
    /\ UNCHANGED cmdVars
    /\ UNCHANGED fastqReader

\* Indexer::read_sequence, on entry
ReadSequence ==
    /\ pc = "sequence"
    /\ sequence_num_bytes' = 0
    /\ pc' = "sequence_loop"
    /\ UNCHANGED <<format, capacity, input, pos, bufEnd, buffer, eof, record, calls,
                   reuse, before, hdr, bufStart, returned>>
    /\ UNCHANGED faiVars
    /\ UNCHANGED cmdVars
    /\ UNCHANGED fastqReader

\* Indexer::read_sequence, leaving its loop
ReadSequenceEnd ==
    /\ pc = "sequence_loop"
    /\ is_sequence_end(buffer, format) \/ eof
    /\ pc' = "plus"
    /\ UNCHANGED <<format, capacity, input, pos, bufEnd, buffer, sequence_num_bytes,
                   eof, record, calls, reuse, before, hdr, bufStart, returned>>
    /\ UNCHANGED faiVars
    /\ UNCHANGED cmdVars
    /\ UNCHANGED fastqReader

\* a read_sequence_line that takes the widths from every line
FoldLine_every_line(rec, line, num_bytes, count) ==
    IF ~IsUtf8(line)
    THEN [kind |-> "TypeConversion", record |-> [rec EXCEPT !.line_width = num_bytes],
          count |-> count]
    ELSE [kind |-> "Ok",
          record |-> [rec EXCEPT !.line_width = num_bytes,
                                 !.line_bases = count_bases(line),
                                 !.length = @ + count_bases(line)],
          count |-> count + num_bytes]

\* a read_sequence_line that takes the raw bytes of the first line for its bases
FoldLine_raw_bases(rec, line, num_bytes, count) ==
    LET first == rec.line_width = 0
        r2 == IF first THEN [rec EXCEPT !.line_width = num_bytes, !.line_bases = num_bytes]
              ELSE rec
    IN  IF ~first /\ rec.line_width < num_bytes
        THEN [kind |-> "Input", record |-> rec, count |-> count]
        ELSE IF ~IsUtf8(line)
        THEN [kind |-> "TypeConversion", record |-> r2, count |-> count]
        ELSE [kind |-> "Ok",
              record |-> [r2 EXCEPT !.length = @ + count_bases(line)],
              count |-> count + num_bytes]

\* a read_sequence_line that takes the bases of the first line for its width
FoldLine_bare_width(rec, line, num_bytes, count) ==
    LET first == rec.line_width = 0
        r2 == IF first /\ IsUtf8(line)
              THEN [rec EXCEPT !.line_width = count_bases(line),
                               !.line_bases = count_bases(line)]
              ELSE rec
    IN  IF ~first /\ rec.line_width < num_bytes
        THEN [kind |-> "Input", record |-> rec, count |-> count]
        ELSE IF ~IsUtf8(line)
        THEN [kind |-> "TypeConversion", record |-> r2, count |-> count]
        ELSE [kind |-> "Ok",
              record |-> [r2 EXCEPT !.length = @ + count_bases(line)],
              count |-> count + num_bytes]

\* a read_sequence_line that compares no widths
FoldLine_unchecked(rec, line, num_bytes, count) ==
    LET first == rec.line_width = 0
        r1 == IF first THEN [rec EXCEPT !.line_width = num_bytes] ELSE rec
        r2 == IF first THEN [r1 EXCEPT !.line_bases = count_bases(line)] ELSE rec
    IN  IF ~IsUtf8(line)
        THEN [kind |-> "TypeConversion", record |-> r1,
              count |-> IF first THEN count ELSE count + num_bytes]
        ELSE [kind |-> "Ok",
              record |-> [r2 EXCEPT !.length = @ + count_bases(line)],
              count |-> count + num_bytes]

\* what read_sequence_line does with a line of num_bytes bytes that is no
\* sequence end: the kind it returns, the record and sequence_num_bytes
FoldLine(rec, line, num_bytes, count) ==
    LET first == rec.line_width = 0
        r1 == IF first THEN [rec EXCEPT !.line_width = num_bytes] ELSE rec
        r2 == IF first THEN [r1 EXCEPT !.line_bases = count_bases(line)] ELSE rec
    IN  IF first /\ ~IsUtf8(line)
        THEN [kind |-> "TypeConversion", record |-> r1, count |-> count]
        ELSE IF ~first /\ rec.line_width < num_bytes
        THEN [kind |-> "Input", record |-> rec, count |-> count]
        ELSE IF ~IsUtf8(line)
        THEN [kind |-> "TypeConversion", record |-> r2, count |-> count + num_bytes]
        ELSE [kind |-> "Ok",
              record |-> [r2 EXCEPT !.length = @ + count_bases(line)],
              count |-> count + num_bytes]

\* Indexer::read_sequence_line, one turn of the loop of read_sequence
ReadSequenceLine ==
    /\ pc = "sequence_loop"
    /\ ~(is_sequence_end(buffer, format) \/ eof)
    /\ LET r == read_line(pos, bufEnd, <<>>)
           f == FoldLine(record, r.buf, r.n, sequence_num_bytes)
       IN  /\ pos' = r.pos
           /\ bufEnd' = r.bufEnd
           /\ eof' = r.eof
           /\ buffer' = r.buf
           /\ bufStart' = pos
           /\ IF r.kind # "Ok"
              THEN /\ Return(r.kind, record)
                   /\ UNCHANGED <<record, sequence_num_bytes>>
              ELSE IF is_sequence_end(r.buf, format)
              THEN UNCHANGED <<record, sequence_num_bytes, pc, returned>>
              ELSE /\ record' = f.record
                   /\ sequence_num_bytes' = f.count
                   /\ IF f.kind # "Ok"
                      THEN Return(f.kind, f.record)
                      ELSE UNCHANGED <<pc, returned>>
    /\ UNCHANGED <<format, capacity, input, calls, reuse, before, hdr>>
    /\ UNCHANGED faiVars
    /\ UNCHANGED cmdVars
    /\ UNCHANGED fastqReader

\* a read_plus that does not look at the format
read_plus_any_format(rec, buf, f, p, e) ==
    [record |-> [rec EXCEPT !.qual_offset = Some(stream_position(p, e))],
     buffer |-> <<>>]

\* a read_plus that takes the stream position of the start of the plus line
read_plus_at_plus_line(rec, buf, f, p, e) ==
    IF f = FASTA THEN [record |-> rec, buffer |-> buf]
    ELSE [record |-> [rec EXCEPT !.qual_offset = Some(stream_position(p, e) - Len(buf))],
          buffer |-> <<>>]

\* a read_plus that clears the line buffer in both formats
read_plus_clearing(rec, buf, f, p, e) ==
    IF f = FASTA THEN [record |-> rec, buffer |-> <<>>]
    ELSE [record |-> [rec EXCEPT !.qual_offset = Some(stream_position(p, e))],
          buffer |-> <<>>]

\* a read_plus that leaves the plus line in the line buffer
read_plus_keeping_buffer(rec, buf, f, p, e) ==
    IF f = FASTA THEN [record |-> rec, buffer |-> buf]
    ELSE [record |-> [rec EXCEPT !.qual_offset = Some(stream_position(p, e))],
          buffer |-> buf]

\* the record and the line buffer after Indexer::read_plus
read_plus(rec, buf, f, p, e) ==
    IF f = FASTA THEN [record |-> rec, buffer |-> buf]
    ELSE [record |-> [rec EXCEPT !.qual_offset = Some(stream_position(p, e))],
          buffer |-> <<>>]

\* Indexer::read_plus
ReadPlus ==
    /\ pc = "plus"
    /\ record' = read_plus(record, buffer, format, pos, bufEnd).record
    /\ buffer' = read_plus(record, buffer, format, pos, bufEnd).buffer
    /\ pc' = "quality"
    /\ UNCHANGED <<format, capacity, input, pos, bufEnd, sequence_num_bytes, eof, calls,
                   reuse, before, hdr, bufStart, returned>>
    /\ UNCHANGED faiVars
    /\ UNCHANGED cmdVars
    /\ UNCHANGED fastqReader

\* Indexer::read_quality, and the return of Indexer::read after it
ReadQuality ==
    /\ pc = "quality"
    /\ IF format = FASTA
       THEN /\ Return("Ok", record)
            /\ UNCHANGED <<pos, bufEnd, buffer, eof, bufStart>>
       ELSE LET p == consume(pos, bufEnd, sequence_num_bytes)
                r == read_line(p, bufEnd, buffer)
            IN  /\ pos' = r.pos
                /\ bufEnd' = r.bufEnd
                /\ eof' = r.eof
                /\ buffer' = r.buf
                /\ bufStart' = p
                /\ Return(r.kind, record)
    /\ UNCHANGED <<format, capacity, input, sequence_num_bytes, record, calls, reuse,
                   before, hdr>>
    /\ UNCHANGED faiVars
    /\ UNCHANGED cmdVars
    /\ UNCHANGED fastqReader

Next ==
    \/ Call
    \/ ReadDescription
    \/ ReadSequence
    \/ ReadSequenceEnd
    \/ ReadSequenceLine
    \/ ReadPlus
    \/ ReadQuality

Spec == Init /\ [][Next]_vars

-----------------------------------------------------------------------------
(* The input as a text file: what the claims are stated against.  Nothing   *)
(* below is used by the actions above.                                      *)

\* the position after the line that starts at position p
RECURSIVE LineEnd(_)
LineEnd(p) ==
    IF p >= Len(input) THEN Len(input)
    ELSE IF input[p + 1] = NEWLINE THEN p + 1
    ELSE LineEnd(p + 1)

\* the lines of the input from position p on, each with its terminator
RECURSIVE LinesFrom(_)
LinesFrom(p) ==
    IF p >= Len(input) THEN <<>>
    ELSE <<SubSeq(input, p + 1, LineEnd(p))>> \o LinesFrom(LineEnd(p))

FileLines == LinesFrom(0)

\* the lines at the head of ls that do not start with the byte b
RECURSIVE Until(_, _)
Until(ls, b) ==
    IF ls = <<>> \/ StartsWith(Head(ls), b) THEN <<>>
    ELSE <<Head(ls)>> \o Until(Tail(ls), b)

\* the sequence lines of the record whose sequence block starts at position p
SequenceBlock(p) == Until(LinesFrom(p), sequence_end_marker(format))

\* a line without its terminator, LF or CR LF
Unterminated(l) ==
    LET a == IF l # <<>> /\ l[Len(l)] = NEWLINE THEN SubSeq(l, 1, Len(l) - 1) ELSE l
    IN  IF a # <<>> /\ a[Len(a)] = CR THEN SubSeq(a, 1, Len(a) - 1) ELSE a

\* the content bytes of a line: without its terminator and the whitespace
\* around the rest
RECURSIVE Content(_)
Content(l) ==
    LET a == Unterminated(l)
    IN  IF a = <<>> THEN a
        ELSE IF a[1] \in Whitespace THEN Content(Tail(a))
        ELSE IF a[Len(a)] \in Whitespace THEN Content(SubSeq(a, 1, Len(a) - 1))
        ELSE a

RECURSIVE SumContent(_)
SumContent(ls) == IF ls = <<>> THEN 0 ELSE Len(Content(Head(ls))) + SumContent(Tail(ls))

\* a header line of the format with a name
HeaderOk(l) ==
    /\ is_description(l, format)
    /\ IsUtf8(l)
    /\ parse_sequence_name(Tail(l)) # <<>>

\* a line of bases: some bases and a terminator, no whitespace among them
BasesOk(l) ==
    /\ IsUtf8(l)
    /\ Unterminated(l) # <<>>
    /\ \A i \in 1..Len(Unterminated(l)) :
          Unterminated(l)[i] \notin Whitespace \cup {GT, AT, PLUS}

\* the lines of a sequence block all have the width of the first, but the
\* last, which may be shorter
BlockOk(ls) ==
    /\ \A i \in 1..Len(ls) : BasesOk(ls[i])
    /\ \A i \in 1..Len(ls) - 1 : Len(ls[i]) = Len(ls[1])
    /\ ls # <<>> => Len(ls[Len(ls)]) <= Len(ls[1])

\* the indices in ls of the lines that start with the byte b
Starting(ls, b) == {i \in 1..Len(ls) : StartsWith(ls[i], b)}

\* the header lines of a FASTA input, in input order
FastaHeaders == SelectSeq(FileLines, LAMBDA l : StartsWith(l, GT))

\* a well-formed FASTA input: it starts with a header line, and every header
\* line is followed by a sequence block (possibly empty)
WellFormedFasta ==
    LET ls == FileLines
    IN  /\ ls # <<>>
        /\ HeaderOk(ls[1])
        /\ \A i \in Starting(ls, GT) :
              /\ HeaderOk(ls[i])
              /\ ls[i][Len(ls[i])] = NEWLINE \/ i = Len(ls)
              /\ BlockOk(Until(SubSeq(ls, i + 1, Len(ls)), GT))

\* the index in ls of the first line from index i on that starts with PLUS, or 0
RECURSIVE PlusIndex(_, _)
PlusIndex(ls, i) ==
    IF i > Len(ls) THEN 0
    ELSE IF StartsWith(ls[i], PLUS) THEN i
    ELSE PlusIndex(ls, i + 1)

\* the indices in ls of the header lines of a FASTQ input read record by
\* record from line i on: header, k sequence lines, plus line, k quality lines
RECURSIVE FastqHeaderIndices(_, _)
FastqHeaderIndices(ls, i) ==
    LET p == PlusIndex(ls, i + 1)
    IN  IF i > Len(ls) THEN <<>>
        ELSE IF p = 0 THEN <<i>>
        ELSE <<i>> \o FastqHeaderIndices(ls, p + (p - i - 1) + 1)

FastqHeaders == [j \in 1..Len(FastqHeaderIndices(FileLines, 1)) |->
                    FileLines[FastqHeaderIndices(FileLines, 1)[j]]]

\* the quality line q has the line structure of the sequence line l; the last
\* line of the input may lack its NEWLINE
QualityOk(l, q, last) ==
    \/ Len(q) = Len(l) /\ q[Len(q)] = NEWLINE
    \/ last /\ Len(q) + 1 = Len(l) /\ (q = <<>> \/ q[Len(q)] # NEWLINE)

\* a well-formed FASTQ input: records of a header line, a sequence block, a
\* plus line and a quality block with the line structure of the sequence block
WellFormedFastq ==
    LET ls == FileLines
    IN  /\ ls # <<>>
        /\ \A j \in 1..Len(FastqHeaderIndices(ls, 1)) :
              LET i == FastqHeaderIndices(ls, 1)[j]
                  p == PlusIndex(ls, i + 1)
                  k == p - i - 1
              IN  /\ HeaderOk(ls[i])
                  /\ p # 0
                  /\ k >= 1
                  /\ p + k <= Len(ls)
                  /\ BlockOk(SubSeq(ls, i + 1, p - 1))
                  /\ \A m \in 1..k : QualityOk(ls[i + m], ls[p + m], p + m = Len(ls))

WellFormed == IF format = FASTA THEN WellFormedFasta ELSE WellFormedFastq

Headers == IF format = FASTA THEN FastaHeaders ELSE FastqHeaders

NameOf(l) == parse_sequence_name(Tail(l))

\* every call so far was given a new or cleared record
AllCleared == \A i \in 1..Len(returned) : returned[i].before = NewRecord

\* the calls made so far on an input of n records returned Ok for the first
\* n, each with the name of its header line, and Eof for call n + 1 (and Ok for
\* none after it)
RecordsThenEof ==
    \A i \in 1..Len(returned) :
        /\ i <= Len(Headers) =>
              /\ returned[i].kind = "Ok"
              /\ returned[i].record.name = NameOf(Headers[i])
        /\ i = Len(Headers) + 1 => returned[i].kind = "Eof"
        /\ i > Len(Headers) => returned[i].kind # "Ok"

\* C1: in FASTA mode, reading a well-formed input of n >= 1 records with
\* cleared records returns Ok n times, the i-th record named after the i-th
\* header line, and then Eof; the last record is not lost.
C1_FastaRecordsInOrder ==
    (format = FASTA /\ WellFormedFasta /\ AllCleared) => RecordsThenEof

\* a FASTA input of two records of the same name has been read to its Eof
C1_Witness ==
    /\ format = FASTA
    /\ WellFormedFasta
    /\ AllCleared
    /\ Len(Headers) = 2
    /\ NameOf(Headers[1]) = NameOf(Headers[2])
    /\ Len(returned) = 3
    /\ returned[2].kind = "Ok" /\ returned[2].record.length > 0
    /\ returned[3].kind = "Eof"

\* C2: in FASTQ mode, reading a well-formed input of n >= 1 records with
\* cleared records returns Ok n times in input order and then Eof.
C2_FastqRecordsInOrder ==
    (format = FASTQ /\ WellFormedFastq /\ AllCleared) => RecordsThenEof

\* the same, for the inputs that fit the buffer of the reader
C2_WhenBuffered ==
    (format = FASTQ /\ WellFormedFastq /\ AllCleared /\ capacity >= Len(input))
        => RecordsThenEof

-----------------------------------------------------------------------------
(* One finished call *)

Last == returned[Len(returned)]

\* the last call has returned kind k, and no other call has begun
Finished(k) == pc = "idle" /\ returned # <<>> /\ Last.kind = k

\* the last call has returned, after its description phase succeeded
FinishedRecord == pc = "idle" /\ returned # <<>> /\ hdr.kind = "Ok"

\* the position after the header line of the last call
HeaderEnd == hdr.start + Len(hdr.line)

\* the sequence lines of the record of the last call
Block == SequenceBlock(HeaderEnd)

\* the position in the input after its i-th header line
RECURSIVE LinesLen(_)
LinesLen(ls) == IF ls = <<>> THEN 0 ELSE Len(Head(ls)) + LinesLen(Tail(ls))

HeaderIndices ==
    IF format = FASTA
    THEN [j \in 1..Len(FastaHeaders) |->
            CHOOSE i \in Starting(FileLines, GT) :
                Cardinality({m \in Starting(FileLines, GT) : m <= i}) = j]
    ELSE FastqHeaderIndices(FileLines, 1)

EndOfHeader(j) == LinesLen(SubSeq(FileLines, 1, HeaderIndices[j]))

\* C3: the offset of a record returned Ok is the position of the first byte
\* after the line taken as its header, terminator included, whether that line
\* was read by this call or was in the line buffer already; on a well-formed
\* input that the skip of the quality block cannot spoil it is the position
\* after the header line of that record in the input.
C3_OffsetAfterHeader ==
    Finished("Ok") =>
        /\ is_description(hdr.line, format)
        /\ hdr.line = SubSeq(input, hdr.start + 1, HeaderEnd)
        /\ LineEnd(hdr.start) = HeaderEnd
        /\ record.name = NameOf(hdr.line)
        /\ record.offset = HeaderEnd
        /\ (WellFormed /\ AllCleared /\ (format = FASTA \/ capacity >= Len(input)))
              => record.offset = EndOfHeader(Len(returned))

\* a second FASTQ record returned Ok whose header line the quality phase of
\* the call before had left in the line buffer
C3_Witness ==
    /\ Finished("Ok")
    /\ format = FASTQ
    /\ WellFormed
    /\ Len(returned) = 2
    /\ hdr.buffered
    /\ record.length > 0
    /\ record.offset = EndOfHeader(2)

\* C4: the length of a record returned Ok on a cleared record is the sum of
\* the content bytes of its sequence lines, the lines between its header and the
\* next terminator line or the end of the input.
C4_LengthIsSumOfBases ==
    (Finished("Ok") /\ before = NewRecord) => record.length = SumContent(Block)

\* a record of two sequence lines, one of them with whitespace before its
\* bases, has been returned
C4_Witness ==
    /\ Finished("Ok")
    /\ before = NewRecord
    /\ Len(Block) = 2
    /\ \E i \in 1..2 : Block[i][1] = SPACE
    /\ record.length = 3

\* the widths of the record are those of its first sequence line, raw bytes
\* and content bytes
WidthsOfFirstLine ==
    Block # <<>> =>
        /\ record.line_width = Len(Block[1])
        /\ record.line_bases = Len(Content(Block[1]))

\* no line after the first is wider than the first, and all are UTF-8
NoWiderLine ==
    \A i \in 1..Len(Block) : IsUtf8(Block[i]) /\ Len(Block[i]) <= Len(Block[1])

\* C5, as stated: line_width and line_bases of a record returned Ok are those
\* of its first sequence line, whatever record the call was given.
C5_AsStated == Finished("Ok") => WidthsOfFirstLine

\* C5: given a cleared record, line_width and line_bases are those of the
\* first sequence line, raw bytes and content bytes, however many lines follow;
\* and a sequence block none of whose later lines is wider than the first, a
\* shorter last line included, fails with neither Input nor TypeConversion.
C5_WidthsFromFirstLine ==
    (FinishedRecord /\ before = NewRecord) =>
        /\ Last.kind = "Ok" => WidthsOfFirstLine
        /\ NoWiderLine => Last.kind \in {"Ok", "Eof"} /\ WidthsOfFirstLine

\* a second record of two lines of bases, the last shorter than the first,
\* has been returned
C5_Witness ==
    /\ Finished("Ok")
    /\ before = NewRecord
    /\ Len(returned) = 2
    /\ Len(Block) = 2
    /\ BlockOk(Block)
    /\ Len(Block[2]) < Len(Block[1])
    /\ record.line_width = Len(Block[1])
    /\ record.line_bases = record.line_width - 1

\* the record has a sequence line after the first that is wider than the first
WiderLine == {i \in 2..Len(Block) : Len(Block[i]) > Len(Block[1])}

C7_UniformWidth ==
    (FinishedRecord /\ before = NewRecord) =>
        /\ Last.kind = "Ok" =>
              \A i \in 1..(Len(Block) - 1) : Len(Block[i]) = record.line_width
        /\ (\E i \in 2..(Len(Block) - 1) : Len(Block[i]) < Len(Block[1]))
              => Last.kind = "Input"

\* C8: a line taken as a header, read by the call or left in the line buffer,
\* that is not empty and does not start with the prefix byte of the format
\* makes the read fail with Input, and the caller gets no record.
C8_BadHeaderIsInputError ==
    (calls > 0 /\ pc # "description" /\ hdr.line # <<>>
        /\ hdr.line[1] # description_prefix(format)) =>
            /\ Finished("Input")
            /\ record = before

\* a line left in the line buffer by the quality phase was no header
C8_Witness ==
    /\ Finished("Input")
    /\ hdr.buffered
    /\ hdr.line # <<>>
    /\ hdr.line[1] # description_prefix(format)
    /\ Len(returned) = 2
    /\ returned[1].kind = "Ok"

\* C9: a call made with the input exhausted at a record boundary, after all
\* the records of an input of complete records or of no record at all,
\* returns Eof.
C9_EofAtRecordBoundary ==
    (AllCleared /\ (input = <<>> \/ WellFormed)) =>
        \A i \in 1..Len(returned) :
            i > (IF input = <<>> THEN 0 ELSE Len(Headers)) => returned[i].kind = "Eof"

\* C10: a record returned Ok by a FASTQ indexer has qual_offset, and a FASTA
\* indexer never sets it.
C10_QualOffsetIffFastq ==
    /\ format = FASTA => record.qual_offset = None
    /\ \A i \in 1..Len(returned) :
          returned[i].kind = "Ok" => (returned[i].record.qual_offset # None <=> format = FASTQ)

\* a FASTQ record has been returned with its qual_offset
C10_Witness ==
    /\ Finished("Ok")
    /\ format = FASTQ
    /\ record.qual_offset # None
    /\ Block # <<>> /\ BlockOk(Block)
    /\ record.qual_offset[1] > record.offset + record.length

-----------------------------------------------------------------------------
(* qual_offset *)

\* the lines of the input from the end of the header of the last call on
AfterHeader == LinesFrom(HeaderEnd)

\* the plus line of the record of the last call, <<>> if the input ends
\* before one
PlusLine ==
    IF Len(AfterHeader) > Len(Block) THEN AfterHeader[Len(Block) + 1] ELSE <<>>

\* C11: the qual_offset of a FASTQ record returned Ok is the position of the
\* first byte after its plus line: its offset, plus the raw bytes of its
\* sequence lines, plus the raw bytes of its plus line.
C11_QualOffsetAfterPlusLine ==
    (Finished("Ok") /\ format = FASTQ) =>
        /\ StartsWith(PlusLine, PLUS)
        /\ record.qual_offset
             = Some(record.offset + LinesLen(Block) + Len(PlusLine))
        /\ record.qual_offset = Some(LineEnd(HeaderEnd + LinesLen(Block)))

\* a FASTQ record of two sequence lines has been returned, and its quality
\* block starts where qual_offset says
C11_Witness ==
    /\ Finished("Ok")
    /\ format = FASTQ
    /\ Len(Block) = 2 /\ BlockOk(Block)
    /\ Len(PlusLine) = 2
    /\ record.qual_offset # None
    /\ record.qual_offset[1] < Len(input)
    /\ input[record.qual_offset[1] + 1] = "I"

-----------------------------------------------------------------------------
(* The fai writer and reader at work *)

\* records written through one Writer
MaxWrites == 2

\* lines of an index read through one Reader
MaxIndexLines == 2

\* Reader::read or Records::next calls made on one Reader
MaxReads == 3

\* names with and without the bytes csv quotes
FaiNames == {<<"a">>, <<>>, <<"a", TAB>>, <<QUOTE, "a">>}

\* the records handed to the Writer
FaiRecords ==
    {[name |-> n, length |-> 10, offset |-> 2, line_bases |-> 3, line_width |-> 4,
      qual_offset |-> q] : n \in FaiNames, q \in {None, Some(0), Some(12)}}

Good5 == <<<<"a">>, <<"1">>, <<"2">>, <<"3">>, <<"4">>>>
Good6 == Good5 \o <<<<"5">>>>

\* the lines of an index, as fields: of 5 and 6 fields, with the sixth field
\* empty, of 4, 1 and 7 fields, empty, and with a field that is no number
IndexLines ==
    {Good5, Good6, [Good6 EXCEPT ![2] = <<"1", "0">>], Append(Good5, <<>>),
     SubSeq(Good5, 1, 4), <<<<"a">>>>, Append(Good6, <<"6">>), <<>>,
     [Good6 EXCEPT ![3] = <<"1", ".", "2">>], [Good6 EXCEPT ![2] = <<"-", "1">>],
     [Good5 EXCEPT ![5] = <<>>], [Good5 EXCEPT ![2] = <<>>]}
    \cup {[Good6 EXCEPT ![i] = <<"x">>] : i \in 2..6}

\* the bytes of a line: its fields with a DELIMITER between them
RECURSIVE Join(_)
Join(fields) ==
    IF fields = <<>> THEN <<>>
    ELSE IF Len(fields) = 1 THEN Head(fields)
    ELSE Head(fields) \o <<DELIMITER>> \o Join(Tail(fields))

IndexSequences == UNION {[1..n -> IndexLines] : n \in 0..MaxIndexLines}

\* the bytes of the lines ls, the last with its NEWLINE only if term
IndexBytes(ls, term) == Bytes([i \in 1..Len(ls) |-> Join(ls[i])], term)

\* Writer::write of a record
WriterWrite ==
    /\ ~faiReader.open
    /\ Len(faiWritten) < MaxWrites
    /\ \E r \in FaiRecords :
          LET w == write(faiWriter, r)
          IN  /\ faiWriter' = w.writer
              /\ faiWritten' = Append(faiWritten,
                                      [record |-> r, kind |-> w.kind,
                                       emitted |-> SubSeq(w.writer.out, Len(faiWriter.out) + 1,
                                                          Len(w.writer.out))])
    /\ UNCHANGED <<faiReader, faiRecord, faiReturned, faiItems>>
    /\ UNCHANGED indexerVars
    /\ UNCHANGED cmdVars
    /\ UNCHANGED fastqReader

\* Reader::new over the bytes the Writer has put out, read with read() or
\* through iter()
ReaderOfWritten ==
    /\ ~faiReader.open
    /\ faiWritten # <<>>
    /\ \E it \in BOOLEAN :
          faiReader' = [iter |-> it, lines |-> <<>>] @@ NewReader(faiWriter.out)
    /\ UNCHANGED <<faiWriter, faiWritten, faiRecord, faiReturned, faiItems>>
    /\ UNCHANGED indexerVars
    /\ UNCHANGED cmdVars
    /\ UNCHANGED fastqReader

\* Reader::new over the bytes of an index, read with read() or through iter()
ReaderOfIndex ==
    /\ ~faiReader.open
    /\ faiWritten = <<>>
    /\ \E ls \in IndexSequences, term, it \in BOOLEAN :
          faiReader' = [iter |-> it, lines |-> ls] @@ NewReader(IndexBytes(ls, term))
    /\ UNCHANGED <<faiWriter, faiWritten, faiRecord, faiReturned, faiItems>>
    /\ UNCHANGED indexerVars
    /\ UNCHANGED cmdVars
    /\ UNCHANGED fastqReader

\* Reader::read on the caller's record
ReaderRead ==
    /\ faiReader.open
    /\ ~faiReader.iter
    /\ Len(faiReturned) < MaxReads
    /\ LET r == read(faiReader, faiRecord)
       IN  /\ faiReader' = [iter |-> faiReader.iter, lines |-> faiReader.lines] @@ r.reader
           /\ faiRecord' = r.record
           /\ faiReturned' = Append(faiReturned,
                                    [kind |-> r.kind, record |-> r.record,
                                     fields |-> r.fields, stage |-> r.stage,
                                     before |-> faiRecord])
    /\ UNCHANGED <<faiWriter, faiWritten, faiItems>>
    /\ UNCHANGED indexerVars
    /\ UNCHANGED cmdVars
    /\ UNCHANGED fastqReader

\* Records::next: Reader::read on a new record, and what next returns
RecordsNext ==
    /\ faiReader.open
    /\ faiReader.iter
    /\ Len(faiReturned) < MaxReads
    /\ LET r == read(faiReader, NewRecord)
       IN  /\ faiReader' = [iter |-> faiReader.iter, lines |-> faiReader.lines] @@ r.reader
           /\ faiReturned' = Append(faiReturned,
                                    [kind |-> r.kind, record |-> r.record,
                                     fields |-> r.fields, stage |-> r.stage,
                                     before |-> NewRecord])
           /\ faiItems' = Append(faiItems, next(r.kind, r.record))
    /\ UNCHANGED <<faiWriter, faiWritten, faiRecord>>
    /\ UNCHANGED indexerVars
    /\ UNCHANGED cmdVars
    /\ UNCHANGED fastqReader

\* Writer::new, with no indexer at work
InitFai ==
    /\ format = FASTA
    /\ capacity = DEFAULT_BUF_SIZE
    /\ reuse = FALSE
    /\ input = <<>>
    /\ pos = 0
    /\ bufEnd = 0
    /\ buffer = <<>>
    /\ sequence_num_bytes = 0
    /\ eof = FALSE
    /\ record = NewRecord
    /\ pc = "idle"
    /\ calls = 0
    /\ before = NewRecord
    /\ hdr = NoHeader
    /\ bufStart = 0
    /\ returned = <<>>
    /\ FaiNew
    /\ CmdNone
    /\ fastqReader = NewFastqReader

NextFai ==
    \/ WriterWrite
    \/ ReaderOfWritten
    \/ ReaderOfIndex
    \/ ReaderRead
    \/ RecordsNext

SpecFai == InitFai /\ [][NextFai]_vars

-----------------------------------------------------------------------------
(* Decoding *)

\* the largest number an index field of the model denotes
MaxNumber == 12

\* the field is the decimal numeral of a number
IsNumeral(s) == \E n \in 0..MaxNumber : to_string(n) = s

NumberOf(s) == CHOOSE n \in 0..MaxNumber : to_string(n) = s

\* the fields at the places ps of a line are numerals
Numerals(fields, ps) == \A i \in ps : i <= Len(fields) => IsNumeral(fields[i])

\* the calls of Reader::read that got as far as Record::try_from
Decoded == {i \in 1..Len(faiReturned) : faiReturned[i].stage = "try_from"}

\* C12: a line of exactly 5 fields decodes to a record without qual_offset, a
\* line of exactly 6 fields to a record whose qual_offset is the number its
\* sixth field denotes, and a line of fewer than 5 or more than 6 fields is an
\* Input error.
C12_DecodeByFieldCount ==
    \A i \in Decoded :
        LET e == faiReturned[i]
        IN  /\ Len(e.fields) \notin {FASTA_WIDTH, FASTQ_WIDTH} => e.kind = "Input"
            /\ (Len(e.fields) = FASTA_WIDTH /\ Numerals(e.fields, 2..5)) =>
                  /\ e.kind = "Ok"
                  /\ e.record.name = e.fields[1]
                  /\ e.record.qual_offset = None
            /\ (Len(e.fields) = FASTQ_WIDTH /\ Numerals(e.fields, 2..6)) =>
                  /\ e.kind = "Ok"
                  /\ e.record.name = e.fields[1]
                  /\ e.record.qual_offset = Some(NumberOf(e.fields[6]))

\* the first line of an index, of 6 fields, has been decoded to a record with
\* a qual_offset of 5
C12_Witness ==
    /\ Len(faiReturned) = 1
    /\ faiReturned[1].fields = Good6
    /\ faiReturned[1].kind = "Ok"
    /\ faiReturned[1].record.qual_offset = Some(5)
    /\ faiReturned[1].record.line_width = 4

\* the line has a field that should be a number and is not one
BadNumber(fields) ==
    \/ \E i \in 2..FASTA_WIDTH : i <= Len(fields) /\ ~IsNumeral(fields[i])
    \/ Len(fields) >= FASTQ_WIDTH /\ fields[6] # <<>> /\ ~IsNumeral(fields[6])

\* C13: decoding a line one of whose fields length, offset, line_bases,
\* line_width or non-empty qual_offset is no number fails with an Input error;
\* the caller's record is left as it was and the iterator yields the error.
C13_BadNumberIsInputError ==
    \A i \in Decoded :
        LET e == faiReturned[i]
        IN  BadNumber(e.fields) =>
              /\ e.kind = "Input"
              /\ e.record = e.before
              /\ faiReader.iter => faiItems[i] = Some([kind |-> "Input", record |-> NewRecord])

\* a line of 6 fields whose offset is 1.2 has been rejected
C13_Witness ==
    /\ Len(faiReturned) = 2
    /\ faiReturned[1].kind = "Ok"
    /\ faiReturned[2].stage = "try_from"
    /\ faiReturned[2].fields = [Good6 EXCEPT ![3] = <<"1", ".", "2">>]
    /\ faiReturned[2].kind = "Input"
    /\ faiRecord = faiReturned[1].record

-----------------------------------------------------------------------------
(* Encoding *)

\* the fields of the index line of a record, as the index format has them
LineOf(rec) ==
    <<rec.name, to_string(rec.length), to_string(rec.offset), to_string(rec.line_bases),
      to_string(rec.line_width)>>
    \o (IF rec.qual_offset # None THEN <<to_string(rec.qual_offset[1])>> ELSE <<>>)

\* the bytes s cut at every DELIMITER
RECURSIVE Split(_, _)
Split(s, cur) ==
    IF s = <<>> THEN <<cur>>
    ELSE IF Head(s) = DELIMITER THEN <<cur>> \o Split(Tail(s), <<>>)
    ELSE Split(Tail(s), Append(cur, Head(s)))

\* the name holds none of the bytes csv quotes a field for
PlainName(name) == \A i \in 1..Len(name) : name[i] \notin {TAB, QUOTE, NEWLINE, CR}

\* the bytes are one line ended by NEWLINE that holds, between tabs, the name
\* and the decimal numerals of the numbers of rec, in the order of the index
\* format, the sixth if and only if rec has a qual_offset
EncodingOf(bytes, rec) ==
    /\ bytes # <<>>
    /\ bytes[Len(bytes)] = NEWLINE
    /\ bytes = Join(LineOf(rec)) \o <<NEWLINE>>
    /\ PlainName(rec.name) =>
          LET fs == Split(SubSeq(bytes, 1, Len(bytes) - 1), <<>>)
          IN  /\ Len(fs) = IF rec.qual_offset = None THEN 5 ELSE 6
              /\ fs[1] = rec.name
              /\ ParseDigits(fs[2], 0) = Some(rec.length)
              /\ ParseDigits(fs[3], 0) = Some(rec.offset)
              /\ ParseDigits(fs[4], 0) = Some(rec.line_bases)
              /\ ParseDigits(fs[5], 0) = Some(rec.line_width)
              /\ rec.qual_offset # None => ParseDigits(fs[6], 0) = rec.qual_offset

\* C14: a record written Ok is emitted as one newline-terminated line of its
\* fields name, length, offset, line_bases, line_width, in that order and
\* joined by tabs, with qual_offset as a sixth field if and only if present.
C14_EncodesTabJoinedLine ==
    \A i \in 1..Len(faiWritten) :
        faiWritten[i].kind = "Ok" => EncodingOf(faiWritten[i].emitted, faiWritten[i].record)

\* the same, for the names no byte of which csv quotes
C14_PlainNames ==
    \A i \in 1..Len(faiWritten) :
        (faiWritten[i].kind = "Ok" /\ PlainName(faiWritten[i].record.name))
            => EncodingOf(faiWritten[i].emitted, faiWritten[i].record)

-----------------------------------------------------------------------------
(* Round trip *)

\* the Reader reads what the Writer wrote
ReadsWritten == faiReader.open /\ faiWritten # <<>>

\* C15: decoding the encoding of a record yields the record, in its six
\* fields, with and without a qual_offset: Record::try_from of its
\* to_string_record, and Reader::read of the line Writer::write made of it.
C15_RoundTrip ==
    /\ \A i \in 1..Len(faiWritten) :
          LET t == try_from(to_string_record(faiWritten[i].record))
          IN  t.kind = "Ok" /\ t.record = faiWritten[i].record
    /\ ReadsWritten =>
          \A i \in 1..Len(faiReturned) :
              (i <= Len(faiWritten) /\ \A j \in 1..i : faiWritten[j].kind = "Ok") =>
                  /\ faiReturned[i].kind = "Ok"
                  /\ faiReturned[i].record = faiWritten[i].record

\* two records, one with a tab and one with a quote in its name, both with a
\* qual_offset, have been written and read back
C15_Witness ==
    /\ ReadsWritten
    /\ Len(faiWritten) = 2 /\ Len(faiReturned) = 2
    /\ faiWritten[1].record.name = <<"a", TAB>>
    /\ faiWritten[2].record.name = <<QUOTE, "a">>
    /\ faiWritten[2].record.qual_offset = Some(12)
    /\ faiWritten[2].record.length = 10
    /\ faiReturned[2].kind = "Ok"
    /\ faiRecord = faiWritten[2].record

-----------------------------------------------------------------------------
(* Records of both shapes through one Writer or one Reader *)

\* the number of fields of the index line of a record
Shape(rec) == IF rec.qual_offset = None THEN FASTA_WIDTH ELSE FASTQ_WIDTH

\* C16, as stated: Writer::write returns Ok for each record of any sequence
\* of records, with and without qual_offset.
C16_AsStated ==
    \A i \in 1..Len(faiWritten) : faiWritten[i].kind = "Ok"

\* C16: Writer::write returns Ok for each record of a sequence of records
\* that all have a qual_offset or all have none, and each line put out carries
\* the 5 or 6 fields of its record.
C16_UniformSequenceWrites ==
    (\A i \in 1..Len(faiWritten) : Shape(faiWritten[i].record) = Shape(faiWritten[1].record))
        => \A i \in 1..Len(faiWritten) :
              /\ faiWritten[i].kind = "Ok"
              /\ Len(ReadFields(faiWritten[i].emitted, 0, "StartRecord", <<>>, <<>>).fields)
                   = Shape(faiWritten[i].record)

\* two records with a qual_offset have been written
C16_Witness ==
    /\ Len(faiWritten) = 2
    /\ Shape(faiWritten[1].record) = FASTQ_WIDTH
    /\ Shape(faiWritten[2].record) = FASTQ_WIDTH
    /\ faiWritten[2].kind = "Ok"
    /\ faiWritten[1].record # faiWritten[2].record

\* C17: Writer::write returns an error for a record that has a qual_offset
\* when the first record written through the Writer had none, and the other
\* way round.
C17_MixedWriteIsError ==
    \A i \in 1..Len(faiWritten) :
        Shape(faiWritten[i].record) # Shape(faiWritten[1].record)
            => faiWritten[i].kind = "Input"

\* a record with a qual_offset has been refused after one without
C17_Witness ==
    /\ Len(faiWritten) = 2
    /\ faiWritten[1].kind = "Ok"
    /\ Shape(faiWritten[1].record) = FASTA_WIDTH
    /\ Shape(faiWritten[2].record) = FASTQ_WIDTH
    /\ faiWritten[2].kind = "Input"

\* C18: Reader::read returns an error for a line whose number of fields is
\* not that of the first line read through the Reader, also when the line
\* alone would decode.
C18_MixedReadIsError ==
    \A i \in 2..Len(faiReturned) :
        (/\ faiReturned[1].stage # "end"
         /\ faiReturned[i].stage # "end"
         /\ Len(faiReturned[i].fields) # Len(faiReturned[1].fields))
            => /\ faiReturned[i].kind = "Input"
               /\ faiReturned[i].record = faiReturned[i].before

\* a line of 5 fields has been refused after a line of 6 fields, and would
\* have decoded alone
C18_Witness ==
    /\ Len(faiReturned) = 2
    /\ faiReturned[1].kind = "Ok"
    /\ faiReturned[1].fields = Good6
    /\ faiReturned[2].fields = Good5
    /\ faiReturned[2].kind = "Input"
    /\ try_from(Good5).kind = "Ok"

-----------------------------------------------------------------------------
(* The end of the index *)

\* a line of 5 or of 6 fields that decodes
ValidLine(fields) ==
    /\ Len(fields) \in {FASTA_WIDTH, FASTQ_WIDTH}
    /\ Numerals(fields, 2..FASTQ_WIDTH)

\* an index of valid lines of one width
ValidIndex(ls) ==
    \A i \in 1..Len(ls) : ValidLine(ls[i]) /\ Len(ls[i]) = Len(ls[1])

\* the record a valid line stands for
RecordOf(fields) ==
    [name |-> fields[1], length |-> NumberOf(fields[2]), offset |-> NumberOf(fields[3]),
     line_bases |-> NumberOf(fields[4]), line_width |-> NumberOf(fields[5]),
     qual_offset |-> IF Len(fields) = FASTQ_WIDTH THEN Some(NumberOf(fields[6])) ELSE None]

\* C19: at the end of its input Reader::read returns Eof, not Input;
\* Records::next yields the record of a read that returned Ok, None for Eof
\* and the error for any other error, so that an index of k valid lines
\* iterates to its k records and then None.
C19_EofEndsIteration ==
    /\ \A i \in 1..Len(faiReturned) :
          faiReturned[i].stage = "end" =>
              /\ faiReturned[i].kind = "Eof"
              /\ faiReader.pos = Len(faiReader.bytes)
    /\ faiReader.iter =>
          /\ Len(faiItems) = Len(faiReturned)
          /\ \A i \in 1..Len(faiItems) :
                /\ faiItems[i] = None <=> faiReturned[i].kind = "Eof"
                /\ faiReturned[i].kind = "Ok" =>
                      faiItems[i] = Some([kind |-> "Ok", record |-> faiReturned[i].record])
                /\ faiReturned[i].kind \notin {"Ok", "Eof"} =>
                      faiItems[i] # None /\ faiItems[i][1].kind = faiReturned[i].kind
    /\ (faiReader.iter /\ faiWritten = <<>> /\ ValidIndex(faiReader.lines)) =>
          \A i \in 1..Len(faiItems) :
              faiItems[i] = IF i <= Len(faiReader.lines)
                            THEN Some([kind |-> "Ok", record |-> RecordOf(faiReader.lines[i])])
                            ELSE None

\* an index of two lines has been iterated to its two records and None
C19_Witness ==
    /\ faiReader.iter
    /\ faiWritten = <<>>
    /\ Len(faiReader.lines) = 2
    /\ ValidIndex(faiReader.lines)
    /\ Len(faiItems) = 3
    /\ faiItems[2] # None
    /\ faiItems[3] = None

-----------------------------------------------------------------------------
(* After an error *)

\* C20: once a call of Indexer::read has returned an Input or a
\* TypeConversion error, no later call on the same indexer returns Ok, in
\* FASTA and in FASTQ mode.
C20_NoResynchronization ==
    \A i \in 1..Len(returned) : \A j \in 1..Len(returned) :
        (i < j /\ returned[i].kind \in {"Input", "TypeConversion"})
            => returned[j].kind # "Ok"

\* the same, in FASTA mode
C20_Fasta == format = FASTA => C20_NoResynchronization

-----------------------------------------------------------------------------
(* The caller's record after a failed read *)

\* C21: a call of Indexer::read that fails, with Input, TypeConversion or
\* Eof, leaves the record it was passed as it was before the call: the caller
\* sees no partly filled record.
C21_NoPartialRecord ==
    \A i \in 1..Len(returned) :
        returned[i].kind # "Ok" => returned[i].record = returned[i].before

-----------------------------------------------------------------------------
(* Header lines and names *)

\* bytes of a header line after its prefix
MaxNameLen == 3

\* the bytes a header line is made of after its prefix
NameAlphabet == {"a", SPACE, TAB, CR, BAD}

HeaderTexts == UNION {[1..n -> NameAlphabet] : n \in 0..MaxNameLen}

\* a sequence block and a quality block of one line ended by CR and NEWLINE
OneLineCR == [seq |-> <<<<"A", "A", CR>>>>, qual |-> <<<<"I", "I", CR>>>>]

\* one record of one sequence line with the header text t, or the header line
\* alone without its NEWLINE
NameInputs(f) ==
    {<<description_prefix(f)>> \o t \o <<NEWLINE>>
        \o Bytes(Tail(RecordLines(f, "a", b)), term) :
            t \in HeaderTexts, b \in {OneLine, OneLineCR}, term \in BOOLEAN}
    \cup {<<description_prefix(f)>> \o t : t \in HeaderTexts}

\* Indexer::new over an input of one record
InitNames ==
    /\ format \in {FASTA, FASTQ}
    /\ capacity = DEFAULT_BUF_SIZE
    /\ reuse = FALSE
    /\ input \in NameInputs(format)
    /\ pos = 0
    /\ bufEnd = 0
    /\ buffer = <<>>
    /\ sequence_num_bytes = 0
    /\ eof = FALSE
    /\ record = NewRecord
    /\ pc = "idle"
    /\ calls = 0
    /\ before = NewRecord
    /\ hdr = NoHeader
    /\ bufStart = 0
    /\ returned = <<>>
    /\ FaiNew
    /\ CmdNone
    /\ fastqReader = NewFastqReader

SpecNames == InitNames /\ [][Next]_vars

\* C22: every record returned Ok has a non-empty name, whatever follows the
\* prefix byte on its header line.
C22_NameNotEmpty ==
    \A i \in 1..Len(returned) :
        returned[i].kind = "Ok" => returned[i].record.name # <<>>

\* the text of the header line of the last call: without the prefix byte and
\* without the whitespace around the rest
HeaderText == Content(Tail(hdr.line))

\* the indices of the bytes of s that are in the set bs
Indices(s, bs) == {i \in 1..Len(s) : s[i] \in bs}

\* the bytes of s before the first one that is in bs, all of s if there is none
CutAt(s, bs) ==
    IF Indices(s, bs) = {} THEN s
    ELSE SubSeq(s, 1, (CHOOSE i \in Indices(s, bs) : \A j \in Indices(s, bs) : i <= j) - 1)

IsPrefix(a, b) == Len(a) <= Len(b) /\ a = SubSeq(b, 1, Len(a))

\* C23, as stated: the name of a record returned Ok is the text of its header
\* line cut at the first whitespace byte; it holds no space, tab, CR or LF
\* and is a prefix of the header text.
C23_AsStated ==
    Finished("Ok") =>
        /\ record.name = CutAt(HeaderText, Whitespace)
        /\ Indices(record.name, Whitespace) = {}
        /\ IsPrefix(record.name, HeaderText)

\* C23: the name of a record returned Ok is the text of its header line cut
\* at the first space, without the whitespace that then ends it; it holds no
\* space, neither starts nor ends with whitespace, and is a prefix of the
\* header text.
C23_NameCutAtFirstSpace ==
    Finished("Ok") =>
        /\ record.name = Content(CutAt(HeaderText, {SPACE}))
        /\ Indices(record.name, {SPACE}) = {}
        /\ record.name # <<>> =>
              record.name[1] \notin Whitespace /\ record.name[Len(record.name)] \notin Whitespace
        /\ IsPrefix(record.name, HeaderText)

\* the header line of a record of two bases, with spaces around the name,
\* has given the name a
C23_Witness ==
    /\ Finished("Ok")
    /\ Tail(hdr.line) = <<SPACE, "a", SPACE, NEWLINE>>
    /\ record.name = <<"a">>
    /\ record.length = 2

-----------------------------------------------------------------------------
(* line_bases, line_width and length *)

\* C26: a record returned Ok on a cleared record has line_width >=
\* line_bases and length >= line_bases, and when it has one sequence line its
\* length is its line_bases, the number of content bytes of that line.
C26_WidthBasesLength ==
    (Finished("Ok") /\ before = NewRecord) =>
        /\ record.line_width >= record.line_bases
        /\ record.length >= record.line_bases
        /\ Len(Block) = 1 =>
              /\ record.length = record.line_bases
              /\ record.line_bases = Len(Content(Block[1]))

\* a record of one sequence line that starts with a space has been returned
C26_Witness ==
    /\ Finished("Ok")
    /\ before = NewRecord
    /\ Len(Block) = 1
    /\ Block[1] = <<SPACE, "A", NEWLINE>>
    /\ record.line_bases = 1
    /\ record.line_width = 3

\* the bytes that end a line: CR and NEWLINE
TerminatorBytes(l) == SubSeq(l, Len(Unterminated(l)) + 1, Len(l))

\* a record of one sequence line, well-formed, has been returned on a cleared
\* record
SingleLineRecord ==
    /\ Finished("Ok")
    /\ before = NewRecord
    /\ HeaderOk(hdr.line)
    /\ Len(Block) = 1
    /\ BlockOk(Block)

\* C27, as stated: for a well-formed record of one sequence line, line_width
\* equals line_bases if and only if the line has no terminator byte beyond a
\* single newline.
C27_AsStated ==
    SingleLineRecord =>
        (record.line_width = record.line_bases
            <=> TerminatorBytes(Block[1]) \in {<<>>, <<NEWLINE>>})

\* C27: for a well-formed record of one sequence line, line_width is
\* line_bases plus the number of terminator bytes of the line: line_bases + 1
\* for a line ended by a single newline, and line_bases if and only if the
\* line, the last of the input, has no terminator byte at all.
C27_WidthCountsTerminator ==
    SingleLineRecord =>
        /\ record.line_width = record.line_bases + Len(TerminatorBytes(Block[1]))
        /\ TerminatorBytes(Block[1]) = <<NEWLINE>> => record.line_width = record.line_bases + 1
        /\ record.line_width = record.line_bases <=> TerminatorBytes(Block[1]) = <<>>

\* a record whose one sequence line ends with CR and NEWLINE has been returned
C27_Witness ==
    /\ SingleLineRecord
    /\ TerminatorBytes(Block[1]) = <<CR, NEWLINE>>
    /\ record.line_bases = 2
    /\ record.line_width = 4

-----------------------------------------------------------------------------
(* The FASTA reader of src/src/io/fasta/reader/fai.rs: Reader.reader is the *)
(* stream (pos, bufEnd over input), Reader.buffer is buffer.  It keeps no   *)
(* eof flag and no byte count: eof and sequence_num_bytes stay as they are. *)

\* the byte a description line starts with
SEQ_START == GT

\* is_description of the FASTA reader
fasta_is_description(line) == line # <<>> /\ line[1] = SEQ_START

\* str::trim_start_matches(SPACE)
RECURSIVE TrimStartMatches(_)
TrimStartMatches(s) ==
    IF s # <<>> /\ s[1] = SPACE THEN TrimStartMatches(Tail(s)) ELSE s

\* get_name of the FASTA reader
fasta_get_name(description) ==
    IF ~fasta_is_description(description) THEN [kind |-> "Input", name |-> <<>>]
    ELSE IF ~IsUtf8(Tail(description)) THEN [kind |-> "TypeConversion", name |-> <<>>]
    ELSE [kind |-> "Ok", name |-> Trim(FirstField(TrimStartMatches(Tail(description))))]

\* Reader::read_line of the FASTA reader: a read of no byte is an Eof error
fasta_read_line(p, e, buf) == common_read_line(p, e, buf)

\* a read_sequence_line that adds the bases of the first line only
fasta_fold_line_first_only(rec, line, num_bytes) ==
    IF rec.line_width = 0
    THEN IF ~IsUtf8(line)
         THEN [kind |-> "TypeConversion", record |-> [rec EXCEPT !.line_width = num_bytes]]
         ELSE [kind |-> "Ok",
               record |-> [rec EXCEPT !.line_width = num_bytes,
                                      !.line_bases = count_bases(line),
                                      !.length = @ + count_bases(line)]]
    ELSE IF rec.line_width < num_bytes THEN [kind |-> "Input", record |-> rec]
    ELSE IF ~IsUtf8(line) THEN [kind |-> "TypeConversion", record |-> rec]
    ELSE [kind |-> "Ok", record |-> rec]

\* what read_sequence_line of the FASTA reader does with a line of num_bytes
\* bytes that is no description: the kind it returns and the record
fasta_fold_line(rec, line, num_bytes) ==
    IF rec.line_width = 0
    THEN IF ~IsUtf8(line)
         THEN [kind |-> "TypeConversion", record |-> [rec EXCEPT !.line_width = num_bytes]]
         ELSE [kind |-> "Ok",
               record |-> [rec EXCEPT !.line_width = num_bytes,
                                      !.line_bases = count_bases(line),
                                      !.length = @ + count_bases(line)]]
    ELSE IF rec.line_width < num_bytes THEN [kind |-> "Input", record |-> rec]
    ELSE IF ~IsUtf8(line) THEN [kind |-> "TypeConversion", record |-> rec]
    ELSE [kind |-> "Ok", record |-> [rec EXCEPT !.length = @ + count_bases(line)]]

\* the inputs of the tests of the FASTA reader, scaled: a described record of
\* two lines and a second record, and the same with an unterminated last line
FastaTestInputs ==
    {Bytes(<<<<GT, "a", SPACE, "b">>, <<"A", "A">>, <<"A">>, <<GT, "b">>, <<"A", "A">>>>, t) :
        t \in BOOLEAN}

\* Reader::new of the FASTA reader and Record::new
InitFasta ==
    /\ format = FASTA
    /\ capacity \in Capacities
    /\ reuse \in BOOLEAN
    /\ input \in Inputs(FASTA) \cup FastaTestInputs
    /\ pos = 0
    /\ bufEnd = 0
    /\ buffer = <<>>
    /\ sequence_num_bytes = 0
    /\ eof = FALSE
    /\ record = NewRecord
    /\ pc = "idle"
    /\ calls = 0
    /\ before = NewRecord
    /\ hdr = NoHeader
    /\ bufStart = 0
    /\ returned = <<>>
    /\ FaiNew
    /\ CmdNone
    /\ fastqReader = NewFastqReader

\* the caller calls Reader::read with its record, cleared unless it reuses it
FastaCall ==
    /\ pc = "idle"
    /\ calls < MaxCalls
    /\ calls' = calls + 1
    /\ record' = IF reuse THEN record ELSE NewRecord
    /\ before' = record'
    /\ hdr' = NoHeader
    /\ pc' = "fasta_description"
    /\ UNCHANGED <<format, capacity, input, pos, bufEnd, buffer, sequence_num_bytes,
                   eof, reuse, bufStart, returned>>
    /\ UNCHANGED faiVars
    /\ UNCHANGED cmdVars
    /\ UNCHANGED fastqReader

\* Reader::read_description of the FASTA reader
FastaReadDescription ==
    /\ pc = "fasta_description"
    /\ LET r == IF buffer = <<>> THEN fasta_read_line(pos, bufEnd, buffer)
                ELSE [kind |-> "Ok", n |-> 0, pos |-> pos, bufEnd |-> bufEnd,
                      buf |-> buffer]
           g == fasta_get_name(r.buf)
           start == IF buffer = <<>> THEN pos ELSE bufStart
           k == IF r.kind # "Ok" THEN r.kind ELSE g.kind
       IN  /\ pos' = r.pos
           /\ bufEnd' = r.bufEnd
           /\ bufStart' = start
           /\ hdr' = [start |-> start, line |-> r.buf, buffered |-> buffer # <<>>,
                      kind |-> k]
           /\ IF k # "Ok"
              THEN /\ buffer' = r.buf
                   /\ Return(k, record)
                   /\ UNCHANGED record
              ELSE /\ record' = [record EXCEPT !.name = g.name,
                                              !.offset = stream_position(r.pos, r.bufEnd)]
                   /\ buffer' = <<>>
                   /\ pc' = "fasta_sequence"
                   /\ UNCHANGED returned
    /\ UNCHANGED <<format, capacity, input, sequence_num_bytes, eof, calls, reuse, before>>
    /\ UNCHANGED faiVars
    /\ UNCHANGED cmdVars
    /\ UNCHANGED fastqReader

\* Reader::read_sequence of the FASTA reader, leaving its loop, and the
\* return of Reader::read after it
FastaReadSequenceEnd ==
    /\ pc = "fasta_sequence"
    /\ fasta_is_description(buffer)
    /\ Return("Ok", record)
    /\ UNCHANGED <<format, capacity, input, pos, bufEnd, buffer, sequence_num_bytes,
                   eof, record, calls, reuse, before, hdr, bufStart>>
    /\ UNCHANGED faiVars
    /\ UNCHANGED cmdVars
    /\ UNCHANGED fastqReader

\* Reader::read_sequence_line of the FASTA reader, one turn of the loop of
\* read_sequence
FastaReadSequenceLine ==
    /\ pc = "fasta_sequence"
    /\ ~fasta_is_description(buffer)
    /\ LET r == fasta_read_line(pos, bufEnd, <<>>)
           f == fasta_fold_line(record, r.buf, r.n)
       IN  /\ pos' = r.pos
           /\ bufEnd' = r.bufEnd
           /\ buffer' = r.buf
           /\ bufStart' = pos
           /\ IF r.kind # "Ok"
              THEN /\ Return(r.kind, record)
                   /\ UNCHANGED record
              ELSE IF fasta_is_description(r.buf)
              THEN UNCHANGED <<record, pc, returned>>
              ELSE /\ record' = f.record
                   /\ IF f.kind # "Ok"
                      THEN Return(f.kind, f.record)
                      ELSE UNCHANGED <<pc, returned>>
    /\ UNCHANGED <<format, capacity, input, sequence_num_bytes, eof, calls, reuse,
                   before, hdr>>
    /\ UNCHANGED faiVars
    /\ UNCHANGED cmdVars
    /\ UNCHANGED fastqReader

NextFasta ==
    \/ FastaCall
    \/ FastaReadDescription
    \/ FastaReadSequenceEnd
    \/ FastaReadSequenceLine

SpecFasta == InitFasta /\ [][NextFasta]_vars

\* the record of the i-th header line of a FASTA input: its name, the
\* position after the header line, the content bytes of its sequence lines and
\* the widths of the first of them
FastaRecord(i) ==
    LET b == SequenceBlock(EndOfHeader(i))
    IN  [name |-> NameOf(Headers[i]),
         offset |-> EndOfHeader(i),
         length |-> SumContent(b),
         line_bases |-> IF b = <<>> THEN 0 ELSE Len(Content(b[1])),
         line_width |-> IF b = <<>> THEN 0 ELSE Len(b[1]),
         qual_offset |-> None]

\* C28: the FASTA reader, reading a well-formed input with cleared records,
\* returns Ok for every record that another header line follows, and Eof for
\* the last record of the input, and in both cases the caller's record holds
\* the name, offset, length, line_bases and line_width of that record.
C28_LastRecordWithEof ==
    (WellFormedFasta /\ AllCleared) =>
        \A i \in 1..Len(returned) :
            /\ i < Len(Headers) => returned[i].kind = "Ok"
            /\ i = Len(Headers) => returned[i].kind = "Eof"
            /\ i <= Len(Headers) => returned[i].record = FastaRecord(i)

\* the input of test_reader_read, scaled, has been read: Ok for the described
\* record of two lines, Eof for the last record
C28_Witness ==
    /\ input \in FastaTestInputs
    /\ WellFormedFasta
    /\ AllCleared
    /\ Len(returned) = 2
    /\ returned[1].kind = "Ok"
    /\ returned[1].record.length = 3
    /\ returned[2].kind = "Eof"
    /\ returned[2].record.name = <<"b">>
    /\ returned[2].record.offset = 13
    /\ returned[2].record.length = 2

-----------------------------------------------------------------------------
(* The end-of-file latch *)

\* this step reads a line and the read yields no byte: the stream position
\* stays where the read began
ZeroByteRead ==
    \/ /\ pc = "description" /\ pc' # pc
       /\ buffer = <<>>
       /\ pos' = pos
    \/ /\ pc = "sequence_loop"
       /\ ~(is_sequence_end(buffer, format) \/ eof)
       /\ pos' = pos
    \/ /\ pc = "quality" /\ pc' # pc
       /\ format = FASTQ
       /\ pos' = consume(pos, bufEnd, sequence_num_bytes)

\* this step returns Eof to the caller
ReturnsEof == returned' # returned /\ returned'[Len(returned')].kind = "Eof"

\* C29: the eof flag starts false; the first read of a line that yields no
\* byte raises it and goes on as a read of 0 bytes with an empty line, not as
\* an Eof error; every read that yields no byte while the flag is up returns
\* Eof; nothing else raises the flag or returns Eof, and the flag is never
\* lowered.
C29_EofLatch ==
    /\ eof = FALSE
    /\ [][/\ (ZeroByteRead /\ ~eof) => (eof' /\ ~ReturnsEof /\ buffer' = <<>>)
          /\ (ZeroByteRead /\ eof) => ReturnsEof
          /\ eof' # eof => (ZeroByteRead /\ ~eof)
          /\ ReturnsEof => (ZeroByteRead /\ eof)
          /\ eof => eof']_vars

\* a record has been returned Ok with the flag raised by the read that ended
\* its sequence block, and the call after it has returned Eof
C29_Witness ==
    /\ eof
    /\ Len(returned) = 2
    /\ returned[1].kind = "Ok"
    /\ returned[2].kind = "Eof"
    /\ pos = Len(input)

-----------------------------------------------------------------------------
(* The skip of the quality block *)

\* the last call has been through its quality phase in FASTQ mode: the line
\* buffer holds the line read there, which begins at bufStart
QualityPhaseDone ==
    /\ FinishedRecord
    /\ format = FASTQ
    /\ Last.kind \in {"Ok", "Eof"}

\* the skip has counted the raw bytes of the sequence lines of this record,
\* and the line read after it begins that many bytes after qual_offset, or at
\* the end of the input
SkippedSequenceBytes ==
    /\ sequence_num_bytes = LinesLen(Block)
    /\ bufStart = Min(record.qual_offset[1] + LinesLen(Block), Len(input))

\* C30: in FASTQ mode the quality phase advances the stream by the raw bytes
\* of the sequence lines of the current record, or to the end of the input,
\* whatever the reader holds in its buffer, so that the line read next begins
\* at qual_offset plus that count; the count starts at zero in each record.
C30_SkipsSequenceBytes == QualityPhaseDone => SkippedSequenceBytes

\* the same, for the inputs that fit the buffer of the reader
C30_WhenBuffered == (QualityPhaseDone /\ capacity >= Len(input)) => SkippedSequenceBytes

-----------------------------------------------------------------------------
(* The index-build loops of src/src/cmd/faidx: consume_reader (index.rs),   *)
(* which skips the names it has written, and run (mod.rs), which does not.  *)
(* The reader is a Box<dyn ReadToFai>: cmdReader holds what its calls will  *)
(* return.  The writer is the fai Writer of faiWriter.                      *)

MaxOutcomes == 3

\* records a reader hands out: two of the name a, a FASTQ record among them
CmdRecords ==
    {[name |-> <<"a">>, length |-> 10, offset |-> 2, line_bases |-> 3, line_width |-> 4,
      qual_offset |-> None],
     [name |-> <<"a">>, length |-> 11, offset |-> 2, line_bases |-> 3, line_width |-> 4,
      qual_offset |-> None],
     [name |-> <<"b">>, length |-> 10, offset |-> 2, line_bases |-> 3, line_width |-> 4,
      qual_offset |-> None],
     [name |-> <<"b">>, length |-> 10, offset |-> 2, line_bases |-> 3, line_width |-> 4,
      qual_offset |-> Some(12)]}

\* the record the FASTA reader has filled when it returns Eof at the last
\* record of its input
WithEof ==
    [name |-> <<"b">>, length |-> 11, offset |-> 2, line_bases |-> 3, line_width |-> 4,
     qual_offset |-> None]

\* what one call of reader.read gives: Ok with the record filled, or an error,
\* with the record new or, at an Eof, filled
ReadOutcomes ==
    {[kind |-> "Ok", record |-> r] : r \in CmdRecords}
        \cup {[kind |-> k, record |-> NewRecord] : k \in {"Eof", "Input", "IO"}}
        \cup {[kind |-> "Eof", record |-> WithEof]}

\* a reader at the end of its outcomes returns Eof
NextOutcome(rd) == IF rd = <<>> THEN [kind |-> "Eof", record |-> NewRecord] ELSE Head(rd)

\* a match on the result of reader.read that goes on after an error
match_read_skipping_errors(kind) ==
    IF kind = "Eof" THEN [return |-> Some("Ok"), write |-> FALSE]
    ELSE [return |-> None, write |-> kind = "Ok"]

\* the match on the result of reader.read, with the ? after it: what the
\* loop returns there, None if it goes on, and whether it has a record
match_read(kind) ==
    IF kind = "Ok" THEN [return |-> None, write |-> TRUE]
    ELSE IF kind = "Eof" THEN [return |-> Some("Ok"), write |-> FALSE]
    ELSE [return |-> Some(kind), write |-> FALSE]

\* a names.insert that keeps the last name only
insert_forgetting(names, name) == {name}

\* names.insert(result.name)
insert(names, name) == names \cup {name}

\* one turn of the loop: reader.read on a new record, then writer.write
\* unless skip says the name is a duplicate
LoopTurn(skip) ==
    LET o == NextOutcome(cmdReader)
        m == match_read(o.kind)
        w == write(faiWriter, o.record)
    IN  /\ cmdReader' = IF cmdReader = <<>> THEN <<>> ELSE Tail(cmdReader)
        /\ cmdRead' = Append(cmdRead, o)
        /\ IF ~m.write
           THEN /\ cmdResult' = m.return
                /\ UNCHANGED <<cmdNames, faiWriter, faiWritten>>
           ELSE IF skip /\ o.record.name \in cmdNames
           THEN UNCHANGED <<cmdResult, cmdNames, faiWriter, faiWritten>>
           ELSE /\ faiWriter' = w.writer
                /\ faiWritten' = Append(faiWritten,
                                        [record |-> o.record, kind |-> w.kind,
                                         emitted |-> SubSeq(w.writer.out, Len(faiWriter.out) + 1,
                                                            Len(w.writer.out))])
                /\ IF w.kind # "Ok"
                   THEN cmdResult' = Some(w.kind) /\ UNCHANGED cmdNames
                   ELSE /\ cmdNames' = IF skip THEN insert(cmdNames, o.record.name)
                                       ELSE cmdNames
                        /\ UNCHANGED cmdResult

\* one turn of the loop of consume_reader
ConsumeReader ==
    /\ cmdLoop = "consume_reader"
    /\ cmdResult = None
    /\ LoopTurn(TRUE)
    /\ UNCHANGED <<cmdLoop, faiReader, faiRecord, faiReturned, faiItems>>
    /\ UNCHANGED indexerVars
    /\ UNCHANGED fastqReader

\* one turn of the loop of run
Run ==
    /\ cmdLoop = "run"
    /\ cmdResult = None
    /\ LoopTurn(FALSE)
    /\ UNCHANGED <<cmdLoop, faiReader, faiRecord, faiReturned, faiItems>>
    /\ UNCHANGED indexerVars
    /\ UNCHANGED fastqReader

\* a reader and Writer::new, on entry of one of the loops
InitCmd ==
    /\ format = FASTA
    /\ capacity = DEFAULT_BUF_SIZE
    /\ reuse = FALSE
    /\ input = <<>>
    /\ pos = 0
    /\ bufEnd = 0
    /\ buffer = <<>>
    /\ sequence_num_bytes = 0
    /\ eof = FALSE
    /\ record = NewRecord
    /\ pc = "idle"
    /\ calls = 0
    /\ before = NewRecord
    /\ hdr = NoHeader
    /\ bufStart = 0
    /\ returned = <<>>
    /\ FaiNew
    /\ cmdReader \in UNION {[1..n -> ReadOutcomes] : n \in 0..MaxOutcomes}
    /\ cmdRead = <<>>
    /\ cmdNames = {}
    /\ cmdLoop \in {"consume_reader", "run"}
    /\ cmdResult = None
    /\ fastqReader = NewFastqReader

NextCmd ==
    \/ ConsumeReader
    \/ Run

SpecCmd == InitCmd /\ [][NextCmd]_vars

\* the records among the outcomes os, in order
OkRecords(os) ==
    LET oks == SelectSeq(os, LAMBDA o : o.kind = "Ok")
    IN  [i \in 1..Len(oks) |-> oks[i].record]

\* the records of rs whose name no earlier record of rs has, in order
RECURSIVE FirstOccurrences(_, _)
FirstOccurrences(rs, seen) ==
    IF rs = <<>> THEN <<>>
    ELSE IF Head(rs).name \in seen THEN FirstOccurrences(Tail(rs), seen)
    ELSE <<Head(rs)>> \o FirstOccurrences(Tail(rs), seen \cup {Head(rs).name})

\* the records passed to writer.write, in order
WrittenRecords == [i \in 1..Len(faiWritten) |-> faiWritten[i].record]

\* C24: the writer of consume_reader has received the records the reader has
\* produced whose name no earlier record had, in reader order; a duplicate is
\* skipped and the loop goes on.
C24_WritesFirstOccurrences ==
    cmdLoop = "consume_reader" =>
        /\ WrittenRecords = FirstOccurrences(OkRecords(cmdRead), {})
        /\ \A i, j \in 1..Len(faiWritten) :
              faiWritten[i].record.name = faiWritten[j].record.name => i = j
        /\ (/\ cmdRead # <<>>
            /\ cmdRead[Len(cmdRead)].kind = "Ok"
            /\ \E i \in 1..Len(cmdRead) - 1 :
                  /\ cmdRead[i].kind = "Ok"
                  /\ cmdRead[i].record.name = cmdRead[Len(cmdRead)].record.name)
              => cmdResult = None

\* the reader has produced a, another a and b: a as first read and b are
\* written, and the loop has returned Ok at the Eof
C24_Witness ==
    /\ cmdLoop = "consume_reader"
    /\ Len(cmdRead) = 4
    /\ cmdRead[1].kind = "Ok" /\ cmdRead[1].record.name = <<"a">>
    /\ cmdRead[2].kind = "Ok" /\ cmdRead[2].record.name = <<"a">>
    /\ cmdRead[2].record # cmdRead[1].record
    /\ cmdRead[3].kind = "Ok" /\ cmdRead[3].record.name = <<"b">>
    /\ WrittenRecords = <<cmdRead[1].record, cmdRead[3].record>>
    /\ cmdResult = Some("Ok")

\* the last call of reader.read and the last call of writer.write
LastRead == cmdRead[Len(cmdRead)]
LastWritten == faiWritten[Len(faiWritten)]

\* C25: in both loops the first error of the reader or the writer that is no
\* Eof ends the loop and is what the loop returns, and an Eof of the reader
\* ends it with Ok; nothing is read or written after either, and the bytes
\* the writer has put out stay as they are.
C25_FirstErrorEndsLoop ==
    /\ [](cmdLoop # "none" =>
            /\ \A i \in 1..Len(cmdRead) - 1 : cmdRead[i].kind = "Ok"
            /\ \A i \in 1..Len(faiWritten) - 1 : faiWritten[i].kind = "Ok"
            /\ cmdResult = None =>
                  /\ \A i \in 1..Len(cmdRead) : cmdRead[i].kind = "Ok"
                  /\ \A i \in 1..Len(faiWritten) : faiWritten[i].kind = "Ok"
            /\ cmdResult # None =>
                  /\ cmdRead # <<>>
                  /\ LastRead.kind = "Eof" => cmdResult = Some("Ok")
                  /\ LastRead.kind \notin {"Ok", "Eof"} => cmdResult = Some(LastRead.kind)
                  /\ LastRead.kind = "Ok" =>
                        /\ faiWritten # <<>>
                        /\ LastWritten.record = LastRead.record
                        /\ LastWritten.kind # "Ok"
                        /\ cmdResult = Some(LastWritten.kind)
                  /\ LastRead.kind # "Ok" =>
                        \A i \in 1..Len(faiWritten) : faiWritten[i].kind = "Ok")
    /\ [][/\ cmdResult # None => UNCHANGED <<cmdRead, faiWritten, faiWriter>>
          /\ IsPrefix(faiWriter.out, faiWriter'.out)]_vars

\* a loop has written a record and has then returned the Input error of its
\* reader, with the line of the record still in the output
C25_Witness ==
    /\ cmdLoop # "none"
    /\ Len(cmdRead) = 2
    /\ cmdRead[1].kind = "Ok"
    /\ cmdRead[2].kind = "Input"
    /\ cmdReader # <<>>
    /\ cmdResult = Some("Input")
    /\ Len(faiWritten) = 1
    /\ faiWriter.out # <<>>
    /\ faiWriter.out = faiWritten[1].emitted

-----------------------------------------------------------------------------
(* The phases of one call *)

\* the phase of Indexer::read the call is in: 0 between calls, 1 description,
\* 2 sequence, 3 plus line, 4 quality
Phase(p) ==
    CASE p = "idle" -> 0
      [] p = "description" -> 1
      [] p \in {"sequence", "sequence_loop"} -> 2
      [] p = "plus" -> 3
      [] p = "quality" -> 4

\* this step ends the call: read() returns
Returns == returned' # returned

\* C31: within one call the phases run in the order description, sequence,
\* plus line, quality, each once and none again after a later one; a call
\* begins with the description phase, a phase follows only the success of the
\* phase before it, an error ends the call, and Ok is returned by the quality
\* phase only; in FASTA mode the plus-line and the quality phase leave the
\* record, the line buffer and the stream as they are.
C31_PhasesInOrder ==
    [][/\ pc = "idle" => (pc' = "description" /\ ~Returns)
       /\ (pc # "idle" /\ ~Returns) => Phase(pc') \in {Phase(pc), Phase(pc) + 1}
       /\ (Phase(pc') = Phase(pc) /\ pc # "idle" /\ ~Returns) => Phase(pc) = 2
       /\ Returns <=> (pc # "idle" /\ pc' = "idle")
       /\ (Returns /\ Phase(pc) < 4) => returned'[Len(returned')].kind # "Ok"
       /\ Phase(pc') = 2 => hdr'.kind = "Ok"
       /\ Phase(pc') > Phase(pc) => Len(returned') = calls' - 1
       /\ (format = FASTA /\ Phase(pc) \in {3, 4})
             => UNCHANGED <<record, buffer, pos, bufEnd>>]_vars

\* a FASTA record has been returned Ok through the plus-line and the quality
\* phase, with the header line of the next record kept in the line buffer
C31_Witness ==
    /\ Finished("Ok")
    /\ format = FASTA
    /\ Len(returned) = 1
    /\ is_description(buffer, format)
    /\ record.length > 0
    /\ pos < Len(input)

-----------------------------------------------------------------------------
(* The line buffer *)

\* the bytes b are no more than one line: no NEWLINE but as the last byte
AtMostOneLine(b) == \A i \in 1..Len(b) - 1 : b[i] # NEWLINE

\* C32: the line buffer of the indexer is empty or holds one line, with no
\* line terminator but as its last byte, and that line is a line of the input:
\* the bytes from bufStart up to the stream position.
C32_BufferHoldsOneLine ==
    /\ AtMostOneLine(buffer)
    /\ bufStart + Len(buffer) <= Len(input)
    /\ buffer # <<>> => buffer = SubSeq(input, bufStart + 1, bufStart + Len(buffer))

\* the first record of a FASTQ input of two has been returned, and the line
\* buffer holds the one line read by the quality phase after its skip, the
\* header line of the second record
C32_Witness ==
    /\ Finished("Ok")
    /\ format = FASTQ
    /\ Len(returned) = 1
    /\ Len(Block) = 2
    /\ Len(buffer) = 3
    /\ buffer[1] = AT
    /\ buffer[3] = NEWLINE
    /\ bufStart > record.qual_offset[1]

-----------------------------------------------------------------------------
(* The format predicates *)

\* the lines the indexer holds or has held: its line buffer and the line the
\* call has taken as its header
LinesSeen == {buffer, hdr.line}

\* C33: for each format, is_description holds of a line exactly when the line
\* is not empty and begins with '>' (FASTA) or '@' (FASTQ), is_sequence_end
\* exactly when it is not empty and begins with '>' (FASTA) or '+' (FASTQ); both
\* give for a line what they give for its first byte alone, and neither holds
\* of the empty line.
C33_FormatPredicates ==
    \A l \in LinesSeen \cup {<<>>} :
        /\ is_description(l, FASTA) <=> (l # <<>> /\ l[1] = ">")
        /\ is_description(l, FASTQ) <=> (l # <<>> /\ l[1] = "@")
        /\ is_sequence_end(l, FASTA) <=> (l # <<>> /\ l[1] = ">")
        /\ is_sequence_end(l, FASTQ) <=> (l # <<>> /\ l[1] = "+")
        /\ \A f \in {FASTA, FASTQ} :
              /\ l = <<>> => (~is_description(l, f) /\ ~is_sequence_end(l, f))
              /\ l # <<>> =>
                    /\ is_description(l, f) <=> is_description(<<l[1]>>, f)
                    /\ is_sequence_end(l, f) <=> is_sequence_end(<<l[1]>>, f)

\* a FASTQ call has left its sequence block at a plus line of two bytes, after
\* a header line that begins with @
C33_Witness ==
    /\ format = FASTQ
    /\ pc = "plus"
    /\ buffer = <<"+", NEWLINE>>
    /\ hdr.line[1] = "@"
    /\ record.length > 0

-----------------------------------------------------------------------------
(* Forward reading *)

\* the calls that have returned Ok, in call order
OkCalls == SelectSeq(returned, LAMBDA c : c.kind = "Ok")

\* C34: the stream position never decreases; the offsets of the records
\* returned Ok one after the other increase strictly; a FASTQ record returned
\* Ok has its offset before its qual_offset, and the record returned Ok after
\* it has its offset after that qual_offset.
C34_ForwardOnly ==
    /\ [](\A i \in 1..Len(OkCalls) :
            /\ i > 1 => OkCalls[i - 1].record.offset < OkCalls[i].record.offset
            /\ format = FASTQ =>
                  /\ OkCalls[i].record.qual_offset # None
                  /\ OkCalls[i].record.offset < OkCalls[i].record.qual_offset[1]
                  /\ i > 1 => OkCalls[i - 1].record.qual_offset[1]
                                  < OkCalls[i].record.offset)
    /\ [][/\ pos' >= pos
          /\ stream_position(pos', bufEnd') >= stream_position(pos, bufEnd)
          /\ bufEnd' >= bufEnd]_vars

\* two FASTQ records have been returned Ok, the second after a skip of its
\* quality block that moved the stream position
C34_Witness ==
    /\ format = FASTQ
    /\ Len(returned) = 2
    /\ Len(OkCalls) = 2
    /\ OkCalls[2].record.offset > OkCalls[1].record.qual_offset[1] + 2
    /\ pos = Len(input)

-----------------------------------------------------------------------------
(* After Eof *)

\* C35: once a call has returned Eof, every later call on the indexer returns
\* Eof, and Records::next, which makes None of an Eof, returns None for each of
\* them.
C35_EofIsAbsorbing ==
    \A i, j \in 1..Len(returned) :
        (i < j /\ returned[i].kind = "Eof") =>
            /\ returned[j].kind = "Eof"
            /\ next(returned[j].kind, returned[j].record) = None

\* a record has been returned Ok, and the three calls after it have returned
\* Eof
C35_Witness ==
    /\ Len(returned) = 4
    /\ returned[1].kind = "Ok"
    /\ returned[2].kind = "Eof"
    /\ returned[4].kind = "Eof"
    /\ pc = "idle"

-----------------------------------------------------------------------------
(* A record cut short *)

\* the last call has taken a header line and the input ends inside the
\* sequence block of its record: sequence lines, and no plus line after them
CutInSequenceBlock ==
    /\ FinishedRecord
    /\ format = FASTQ
    /\ Block # <<>>
    /\ PlusLine = <<>>

\* C36: in FASTQ mode a call whose record is cut off inside its sequence
\* block, with its header and sequence lines and no plus line, does not return
\* Eof.
C36_CutRecordIsNotEof == CutInSequenceBlock => Last.kind # "Eof"

-----------------------------------------------------------------------------
(* The FASTQ reader of src/src/io/fastq/reader/fai.rs, run beside the       *)
(* indexer on the same input.  fastqReader holds its fields: the stream of  *)
(* its own BufReader (pos, bufEnd), buffer, sequence_num_bytes, eof.        *)

\* the byte a description line of the FASTQ reader starts with
FASTQ_SEQ_START == AT

\* is_description of the FASTQ reader
fastq_is_description(line) == StartsWith(line, FASTQ_SEQ_START)

\* is_plus of the FASTQ reader
fastq_is_plus(line) == StartsWith(line, PLUS)

\* get_name of the FASTQ reader
fastq_get_name(description) ==
    IF ~fastq_is_description(description) THEN [kind |-> "Input", name |-> <<>>]
    ELSE IF ~IsUtf8(Tail(description)) THEN [kind |-> "TypeConversion", name |-> <<>>]
    ELSE [kind |-> "Ok", name |-> parse_sequence_name(Tail(description))]

\* a read_line of the FASTQ reader without the latch: every read of no byte
\* is an Eof error
fastq_read_line_without_latch(p, e, buf, flag) ==
    common_read_line(p, e, buf) @@ [eof |-> flag]

\* Reader::read_line of the FASTQ reader from position p, appending to buf,
\* with the eof flag at flag
fastq_read_line(p, e, buf, flag) ==
    LET r == common_read_line(p, e, buf)
    IN  IF r.kind = "Eof"
        THEN IF flag THEN r @@ [eof |-> TRUE]
             ELSE [r EXCEPT !.kind = "Ok", !.n = 0] @@ [eof |-> TRUE]
        ELSE r @@ [eof |-> flag]

\* the reader rd after a read_line that gave r
AfterLine(rd, r) ==
    [rd EXCEPT !.pos = r.pos, !.bufEnd = r.bufEnd, !.buffer = r.buf, !.eof = r.eof]

\* Reader::read_description of the FASTQ reader
fastq_read_description(rd, rec) ==
    LET r == IF rd.buffer = <<>> THEN fastq_read_line(rd.pos, rd.bufEnd, rd.buffer, rd.eof)
             ELSE [kind |-> "Ok", n |-> 0, pos |-> rd.pos, bufEnd |-> rd.bufEnd,
                   buf |-> rd.buffer, eof |-> rd.eof]
        g == fastq_get_name(r.buf)
    IN  IF r.kind # "Ok" THEN [kind |-> r.kind, reader |-> AfterLine(rd, r), record |-> rec]
        ELSE IF g.kind # "Ok"
        THEN [kind |-> g.kind, reader |-> AfterLine(rd, r), record |-> rec]
        ELSE [kind |-> "Ok",
              reader |-> [AfterLine(rd, r) EXCEPT !.buffer = <<>>],
              record |-> [rec EXCEPT !.name = g.name,
                                     !.offset = stream_position(r.pos, r.bufEnd)]]

\* what read_sequence_line of the FASTQ reader does with a line of num_bytes
\* bytes that is no plus line: the kind it returns, the record and
\* sequence_num_bytes
fastq_fold_line(rec, line, num_bytes, count) ==
    LET first == rec.line_width = 0
        r1 == IF first THEN [rec EXCEPT !.line_width = num_bytes] ELSE rec
        r2 == IF first THEN [r1 EXCEPT !.line_bases = count_bases(line)] ELSE rec
    IN  IF first /\ ~IsUtf8(line)
        THEN [kind |-> "TypeConversion", record |-> r1, count |-> count]
        ELSE IF ~first /\ rec.line_width < num_bytes
        THEN [kind |-> "Input", record |-> rec, count |-> count]
        ELSE IF ~IsUtf8(line)
        THEN [kind |-> "TypeConversion", record |-> r2, count |-> count + num_bytes]
        ELSE [kind |-> "Ok",
              record |-> [r2 EXCEPT !.length = @ + count_bases(line)],
              count |-> count + num_bytes]

\* one turn of the loop of Reader::read_sequence of the FASTQ reader, with no
\* plus line in the buffer: read_sequence_line
fastq_read_sequence_line(rd, rec) ==
    LET r == fastq_read_line(rd.pos, rd.bufEnd, <<>>, rd.eof)
        f == fastq_fold_line(rec, r.buf, r.n, rd.sequence_num_bytes)
    IN  IF r.kind # "Ok"
        THEN [kind |-> r.kind, reader |-> AfterLine(rd, r), record |-> rec]
        ELSE IF fastq_is_plus(r.buf)
        THEN [kind |-> "Ok", reader |-> AfterLine(rd, r), record |-> rec]
        ELSE [kind |-> f.kind,
              reader |-> [AfterLine(rd, r) EXCEPT !.sequence_num_bytes = f.count],
              record |-> f.record]

\* Reader::read_plus of the FASTQ reader
fastq_read_plus(rd, rec) ==
    [kind |-> "Ok",
     reader |-> [rd EXCEPT !.buffer = <<>>],
     record |-> [rec EXCEPT !.qual_offset = Some(stream_position(rd.pos, rd.bufEnd))]]

\* Reader::read_quality of the FASTQ reader
fastq_read_quality(rd, rec) ==
    LET p == consume(rd.pos, rd.bufEnd, rd.sequence_num_bytes)
        r == fastq_read_line(p, rd.bufEnd, rd.buffer, rd.eof)
    IN  [kind |-> r.kind, reader |-> AfterLine(rd, r), record |-> rec]

\* the two readers over one FASTQ input, each with its own BufReader of the
\* same capacity, their callers passing a new record to every call
InitBoth ==
    /\ format = FASTQ
    /\ capacity \in Capacities
    /\ reuse = FALSE
    /\ input \in Inputs(FASTQ)
    /\ pos = 0
    /\ bufEnd = 0
    /\ buffer = <<>>
    /\ sequence_num_bytes = 0
    /\ eof = FALSE
    /\ record = NewRecord
    /\ pc = "idle"
    /\ calls = 0
    /\ before = NewRecord
    /\ hdr = NoHeader
    /\ bufStart = 0
    /\ returned = <<>>
    /\ FaiNew
    /\ CmdNone
    /\ fastqReader = NewFastqReader

\* the caller calls Indexer::read, after the FASTQ reader has made as many
\* calls as the indexer
IndexerCall ==
    /\ Len(fastqReader.returned) = Len(returned)
    /\ Call

\* Reader::read of the FASTQ reader returns kind to the caller, whose record
\* is now rec
FastqReturn(rd, kind, rec) ==
    fastqReader' = [rd EXCEPT !.pc = "idle", !.record = rec,
                              !.returned = Append(@, [kind |-> kind, record |-> rec])]

\* the caller calls Reader::read of the FASTQ reader with a new record, after
\* the call of the indexer has returned
FastqCall ==
    /\ pc = "idle"
    /\ fastqReader.pc = "idle"
    /\ Len(fastqReader.returned) < Len(returned)
    /\ fastqReader' = [fastqReader EXCEPT !.pc = "description", !.record = NewRecord]
    /\ UNCHANGED indexerVars
    /\ UNCHANGED faiVars
    /\ UNCHANGED cmdVars

\* Reader::read_description of the FASTQ reader, and the entry of
\* read_sequence after it
FastqReadDescription ==
    /\ fastqReader.pc = "description"
    /\ LET d == fastq_read_description(fastqReader, fastqReader.record)
       IN  IF d.kind # "Ok" THEN FastqReturn(d.reader, d.kind, d.record)
           ELSE fastqReader' = [d.reader EXCEPT !.pc = "sequence", !.record = d.record,
                                                !.sequence_num_bytes = 0]
    /\ UNCHANGED indexerVars
    /\ UNCHANGED faiVars
    /\ UNCHANGED cmdVars

\* Reader::read_sequence_line of the FASTQ reader, one turn of the loop of
\* read_sequence
FastqReadSequenceLine ==
    /\ fastqReader.pc = "sequence"
    /\ ~fastq_is_plus(fastqReader.buffer)
    /\ LET l == fastq_read_sequence_line(fastqReader, fastqReader.record)
       IN  IF l.kind # "Ok" THEN FastqReturn(l.reader, l.kind, l.record)
           ELSE fastqReader' = [l.reader EXCEPT !.record = l.record]
    /\ UNCHANGED indexerVars
    /\ UNCHANGED faiVars
    /\ UNCHANGED cmdVars

\* Reader::read_sequence of the FASTQ reader, leaving its loop, then
\* read_plus, read_quality and the return of Reader::read
FastqReadPlusQuality ==
    /\ fastqReader.pc = "sequence"
    /\ fastq_is_plus(fastqReader.buffer)
    /\ LET p == fastq_read_plus(fastqReader, fastqReader.record)
           q == fastq_read_quality(p.reader, p.record)
       IN  FastqReturn(q.reader, q.kind, q.record)
    /\ UNCHANGED indexerVars
    /\ UNCHANGED faiVars
    /\ UNCHANGED cmdVars

NextBoth ==
    \/ IndexerCall
    \/ ReadDescription
    \/ ReadSequence
    \/ ReadSequenceEnd
    \/ ReadSequenceLine
    \/ ReadPlus
    \/ ReadQuality
    \/ FastqCall
    \/ FastqReadDescription
    \/ FastqReadSequenceLine
    \/ FastqReadPlusQuality

SpecBoth == InitBoth /\ [][NextBoth]_vars

\* C37: the indexer in FASTQ mode and the FASTQ reader, run on the same
\* input with new records, return the same kind at every call and, when it is
\* Ok, equal records.
C37_IndexerEqualsFastqReader ==
    \A i \in 1..Min(Len(returned), Len(fastqReader.returned)) :
        /\ returned[i].kind = fastqReader.returned[i].kind
        /\ returned[i].kind = "Ok" => returned[i].record = fastqReader.returned[i].record

\* both have returned a first record Ok and then Eof for a second record that
\* is cut off after its sequence line, the indexer from its quality phase
\* with a qual_offset, the FASTQ reader from its sequence phase without one
C37_Witness ==
    /\ Len(returned) = 2
    /\ Len(fastqReader.returned) = 2
    /\ returned[1].kind = "Ok"
    /\ fastqReader.returned[1].record.length = 2
    /\ returned[2].kind = "Eof"
    /\ fastqReader.returned[2].kind = "Eof"
    /\ returned[2].record.length = 1
    /\ returned[2].record.qual_offset # None
    /\ fastqReader.returned[2].record.qual_offset = None
    /\ fastqReader.eof

-----------------------------------------------------------------------------
(* The caller's record *)

\* the record of the last call as the input gives it: the name and the end of
\* its header line, the content bytes of its sequence lines, the widths of the
\* first of them and, for FASTQ, the end of the line after them
RecordOfInput ==
    [name |-> NameOf(hdr.line),
     offset |-> HeaderEnd,
     length |-> SumContent(Block),
     line_bases |-> IF Block = <<>> THEN 0 ELSE Len(Content(Block[1])),
     line_width |-> IF Block = <<>> THEN 0 ELSE Len(Block[1]),
     qual_offset |-> IF format = FASTQ THEN Some(LineEnd(HeaderEnd + LinesLen(Block)))
                     ELSE None]

\* C38, as stated: the record of a call returned Ok is what the input gives,
\* the same whether the caller passed a new or cleared record or the record of
\* the call before without clear().
C38_AsStated == Finished("Ok") => record = RecordOfInput

\* C38: the record of a call returned Ok is what the input gives when the
\* caller passed a new or cleared record, and Record::clear gives the record
\* of Record::new; of a record passed on without clear() the name, offset and
\* qual_offset are replaced, the length grows by the bases of the new record,
\* and line_bases and line_width stay unless line_width was 0.
C38_ClearedRecordFromInput ==
    /\ ~reuse => before = NewRecord
    /\ \A i \in 1..Len(returned) : clear(returned[i].record) = NewRecord
    /\ Finished("Ok") =>
          /\ before = NewRecord => record = RecordOfInput
          /\ record.name = RecordOfInput.name
          /\ record.offset = RecordOfInput.offset
          /\ record.qual_offset = RecordOfInput.qual_offset
          /\ record.length = before.length + RecordOfInput.length
          /\ record.line_width =
                IF before.line_width = 0 THEN RecordOfInput.line_width
                ELSE before.line_width
          /\ record.line_bases =
                IF before.line_width = 0 THEN RecordOfInput.line_bases
                ELSE before.line_bases

\* a second record has been returned Ok to a caller that cleared the record
\* of the first call, of another name and more bases, before passing it on
C38_Witness ==
    /\ Finished("Ok")
    /\ ~reuse
    /\ Len(returned) = 2
    /\ returned[1].kind = "Ok"
    /\ returned[1].record.length > record.length
    /\ returned[1].record.name # record.name
    /\ before = NewRecord
    /\ record = RecordOfInput
    /\ record.length > 0

====
